---- MODULE Spec2Model ----
(***************************************************************************)
(* State-machine model of the DocuCraft web editor: the editor controller  *)
(* (assets/js/editor.js), and the export, import and storage modules       *)
(* (assets/js/export.js).  One action per event handler or timer callback. *)
(* Time is kept as the remaining delay of every pending browser timer.     *)
(***************************************************************************)
EXTENDS Integers, Sequences, FiniteSets, TLC

\* ------------------------------------------------------------------ bounds

\* longest document (in characters) the user may build
MaxLen == 2
\* depth of the engine's undo / redo stacks (the code configures 100)
MaxHist == 1
\* status-reset timers pending when the user starts a manual save or load
MaxStatusTimers == 1

\* heights (px) the browser lays the export's staging container out to: a
\* few lines, and documents of about one and a half and three pages
WrapperHeights == {140, 1400, 2800}

\* ------------------------------------------------------- program constants

\* the export: the staging container's width (px), html2canvas's scale, the
\* A4 page of jsPDF (mm), the image's origin and what its width leaves free
WRAPPER_WIDTH == 700
CANVAS_SCALE == 2
A4_WIDTH == 210
A4_HEIGHT == 297
IMG_ORIGIN == 10
IMG_INSET == 20

AUTOSAVE_DELAY == 2000
STATUS_RESET_DELAY == 3000
STARTUP_DELAY == 200
STARTUP_RETRY_DELAY == 500
IMPORT_AUTOSAVE_DELAY == 500
EXPORT_RENDER_DELAY == 1000
EXPORT_CLEANUP_DELAY == 500

\* the instants, besides timer expiries, at which the user may act
Quantum == AUTOSAVE_DELAY \div 2

\* ------------------------------------------------------------- plain text

Letter == "a"
Space == " "
Newline == "n"
\* the characters the user types
Chars == {Letter, Space}

\* the \s class of the regular expressions and of trim()
IsSpace(c) == c \in {Space, Newline}

RECURSIVE TrimStart(_)
TrimStart(s) ==
    IF s = <<>> THEN <<>>
    ELSE IF IsSpace(Head(s)) THEN TrimStart(Tail(s)) ELSE s

RECURSIVE TrimEnd(_)
TrimEnd(s) ==
    IF s = <<>> THEN <<>>
    ELSE IF IsSpace(s[Len(s)]) THEN TrimEnd(SubSeq(s, 1, Len(s) - 1)) ELSE s

\* String.prototype.trim
Trim(s) == TrimEnd(TrimStart(s))

\* String.prototype.split(/\s+/): the pieces between maximal runs of
\* white space; a string without white space (the empty one too) is one piece
RECURSIVE SplitFrom(_, _, _)
SplitFrom(s, i, cur) ==
    IF i > Len(s) THEN <<cur>>
    ELSE IF IsSpace(s[i])
         THEN IF i > 1 /\ IsSpace(s[i - 1])
              THEN SplitFrom(s, i + 1, cur)
              ELSE <<cur>> \o SplitFrom(s, i + 1, <<>>)
         ELSE SplitFrom(s, i + 1, Append(cur, s[i]))

SplitWs(s) == SplitFrom(s, 1, <<>>)

\* Array.prototype.filter(w => w.length > 0)
RECURSIVE NonEmptyOnly(_)
NonEmptyOnly(ws) ==
    IF ws = <<>> THEN <<>>
    ELSE IF Len(Head(ws)) > 0
         THEN <<Head(ws)>> \o NonEmptyOnly(Tail(ws))
         ELSE NonEmptyOnly(Tail(ws))

\* quill.getText(): the inserted characters followed by the newline that
\* closes every engine document
GetText(ops) == ops \o <<Newline>>

\* the word count without its filter(w => w.length > 0)
SaveWordCountUnfiltered(ops) == Len(SplitWs(Trim(GetText(ops))))

\* the record's count taken as the length of the trimmed text
SaveWordCountOfChars(ops) == Len(Trim(GetText(ops)))

\* performSave: text.split(/\s+/).filter(w => w.length > 0).length, text trimmed
SaveWordCount(ops) == Len(NonEmptyOnly(SplitWs(Trim(GetText(ops)))))

\* updateWordCount: words and characters of the trimmed plain text
DisplayOf(ops) ==
    [words |-> Len(NonEmptyOnly(SplitWs(Trim(GetText(ops))))),
     chars |-> Len(Trim(GetText(ops)))]

\* the footer text of index.html before the first updateWordCount
NoDisplay == [words |-> -1, chars |-> -1]

\* ------------------------------------------------------------ the PDF

\* html2canvas(wrapper, {scale: 2, width: offsetWidth, height: offsetHeight}):
\* a canvas of twice the element's size, showing its markup
Html2canvas(markup, offsetHeight) ==
    [width |-> CANVAS_SCALE * WRAPPER_WIDTH, height |-> CANVAS_SCALE * offsetHeight,
     shows |-> markup]

\* new jsPDF({portrait, mm, a4}) is a document of one page; the canvas is
\* added once, at (10, 10), as wide as the page less 20 mm and as high as
\* its aspect ratio makes it
AssemblePdf(canvas) ==
    LET pdfWidth == A4_WIDTH
        imgWidth == pdfWidth - IMG_INSET
        imgHeight == (canvas.height * imgWidth) \div canvas.width
    IN  [pages |-> 1,
         images |-> <<[page |-> 1, x |-> IMG_ORIGIN, y |-> IMG_ORIGIN,
                       w |-> imgWidth, h |-> imgHeight, shows |-> canvas.shows]>>]

\* ------------------------------------------------------- local storage

\* A stored string is modelled by what JSON.parse makes of it.
\*   absent   : getItem returns null
\*   garbage  : not JSON, JSON.parse throws SyntaxError
\*   null     : the JSON text null
\*   nocontent: an object without a content field
\*   noops    : an object whose content has no ops
\*   record   : a Save Record {content: {ops}, timestamp, version, wordCount}
NoItem == [shape |-> "absent", ops |-> <<>>, wordCount |-> 0]
Malformed(sh) == [shape |-> sh, ops |-> <<>>, wordCount |-> 0]
MalformedShapes == {"garbage", "null", "nocontent", "noops"}

\* JSON.stringify(saveData)
JSONstringify(saveData) ==
    [shape |-> "record", ops |-> saveData.content.ops,
     wordCount |-> saveData.wordCount]

\* JSON.parse(savedDataString): kind is "SyntaxError" (it throws), "null",
\* or "object" with what the validation of loadSavedDocument reads
JSONparse(item) ==
    [kind |-> CASE item.shape = "garbage" -> "SyntaxError"
                [] item.shape = "null" -> "null"
                [] OTHER -> "object",
     hasContent |-> item.shape \in {"noops", "record"},
     hasOps |-> item.shape = "record",
     ops |-> item.ops]

\* --------------------------------------------------------------- state

VARIABLES
    quill,            \* the engine reference: "null" or "ready"
    content,          \* the engine's document (its inserted characters)
    undoStack,        \* quill.history.stack.undo: entries {undo, redo} of changes
    redoStack,        \* quill.history.stack.redo
    wordCount,        \* the footer's word / character display
    darkMode,         \* body carries the dark-mode class
    darkModeBtn,      \* the icon on the theme button: "moon" or "sun"
    themeItem,        \* localStorage 'theme': "absent", "light" or "dark"
    savedItem,        \* localStorage STORAGE_KEY
    isAutosaveEnabled,
    autosaveTimer,    \* the handle: NoTimer, Stale, or the delay left of its timer
    autosaveTimers,   \* delays left of the pending performSave(true) callbacks
    statusTimers,     \* delays left of the pending status-reset callbacks
    importTimers,     \* delays left of the pending triggerAutosave callbacks
    startup,          \* the storage module's start-up: phase and delay left
    listening,        \* the storage module's text-change listener is attached
    autoSaveStatus,   \* the footer's autosave status
    importBtn,        \* the import control: "idle", "reading" or "converting"
    fileInput,        \* the import's file input: "empty", or "selected" with a file
    exportPc,         \* the export in flight: "idle", "settling", "rasterizing", "cleanup"
    exportTimer,      \* delay left of the export's pending setTimeout, or NoTimer
    exportBtn,        \* the export control: disabled, label
    overlays,         \* overlay elements in the page
    wrappers,         \* staging containers in the page
    wrapperHtml,      \* the markup copied into the staging container
    downloads,        \* files handed to the browser by the export in flight
    pdf,              \* the jsPDF document of the export in flight, or NoPdf
    dialogs,          \* alert / confirm boxes shown by the last handler
    uncaught,         \* the last handler ended with an uncaught exception
    lastOp,           \* the last handler that ran, with its outcome
    change,           \* bookkeeping on the last user-sourced change (not program state)
    saved             \* bookkeeping on the last successful save (not program state)

editorVars == <<quill, content, undoStack, redoStack, wordCount>>
themeVars == <<darkMode, darkModeBtn, themeItem>>
storageVars == <<savedItem, isAutosaveEnabled, autosaveTimer, autosaveTimers,
                 statusTimers, importTimers, startup, listening, autoSaveStatus>>
importVars == <<importBtn, fileInput>>
exportVars == <<exportPc, exportTimer, exportBtn, overlays, wrappers, wrapperHtml,
                downloads, pdf>>
uiVars == <<dialogs, uncaught, lastOp>>
ghostVars == <<change, saved>>
vars == <<editorVars, themeVars, storageVars, importVars, exportVars, uiVars, ghostVars>>

NoTimer == -1
NoPdf == [pages |-> 0, images |-> <<>>]
Stale == -2

\* ------------------------------------------------- bookkeeping on changes

\* age: ms since the last user-sourced change of this page session (-1: none
\* yet), capped one quantum past the autosave delay; tracked: that change armed
\* the autosave timer and triggerAutosave was not called again since;
\* savesAtEnd / earlySaves: the runs of performSave(true) exactly at, and
\* before, 2000 ms after that change; rearmed: that change cancelled a timer
\* that had already run part of its delay; cleared: the operation ("newDoc" or
\* "restore") that has discarded a non-empty undo stack since that change
AgeCap == AUTOSAVE_DELAY + Quantum

NoChange ==
    [age |-> -1, tracked |-> FALSE, savesAtEnd |-> 0, earlySaves |-> 0,
     rearmed |-> FALSE, cleared |-> "none"]

\* a user-sourced text-change event was just emitted
Changed(armed, rearmed) ==
    [age |-> 0, tracked |-> armed, savesAtEnd |-> 0, earlySaves |-> 0,
     rearmed |-> rearmed, cleared |-> "none"]

\* performSave(true) just ran
AutoSaved(ch) ==
    IF ch.age = -1 THEN ch
    ELSE [ch EXCEPT !.savesAtEnd = IF ch.age = AUTOSAVE_DELAY THEN @ + 1 ELSE @,
                    !.earlySaves = IF ch.age < AUTOSAVE_DELAY THEN @ + 1 ELSE @]

\* triggerAutosave just armed the timer without a user-sourced change
Retriggered(ch) == [ch EXCEPT !.tracked = FALSE]

\* the engine's history was just cleared by the operation by
Cleared(ch, by, stack) == [ch EXCEPT !.cleared = IF stack # <<>> THEN by ELSE "none"]

Aged(ch, d) ==
    IF ch.age = -1 THEN ch
    ELSE [ch EXCEPT !.age = IF @ + d > AgeCap THEN AgeCap ELSE @ + d]

\* valid: a save has succeeded and its record was not removed since; ops: the
\* engine content at that save; edited: the engine content was changed since
NoSave == [valid |-> FALSE, ops |-> <<>>, edited |-> FALSE]

JustSaved(doc) == [valid |-> TRUE, ops |-> doc, edited |-> FALSE]

Edited(sv) == IF sv.valid THEN [sv EXCEPT !.edited = TRUE] ELSE sv

\* ------------------------------------------------------ the engine's history

\* A change at the end of the document: delete del characters, then insert ins.
NoDelta == [del |-> 0, ins |-> <<>>]

ApplyDelta(d, doc) ==
    LET n == IF d.del > Len(doc) THEN Len(doc) ELSE d.del
    IN  SubSeq(doc, 1, Len(doc) - n) \o d.ins

\* history.record with userOnly: a user change pushes {undo, redo}, drops the
\* oldest entry beyond the stack depth, and empties the redo stack
Recorded(stack, entry) ==
    LET pushed == Append(stack, entry)
    IN  IF Len(pushed) > MaxHist THEN Tail(pushed) ELSE pushed

\* history.transform for an api change that deletes the whole document: what an
\* entry deletes is gone already, what it inserts is kept
TransformedEntry(e) ==
    [undo |-> [del |-> 0, ins |-> e.undo.ins], redo |-> [del |-> 0, ins |-> e.redo.ins]]

TransformedStack(stack) == [i \in 1..Len(stack) |-> TransformedEntry(stack[i])]

\* -------------------------------------------------------- storage module

\* updateAutosaveStatus, called with each status of calls in turn: the text
\* shown at the end ...
StatusAfter(cur, calls) == IF calls = <<>> THEN cur ELSE calls[Len(calls)]

\* ... and the reset timers: 'saved' and 'loaded' each start one
StatusTimersAfter(timers, calls) ==
    IF \E i \in 1..Len(calls) : calls[i] \in {"saved", "loaded"}
    THEN timers \cup {STATUS_RESET_DELAY}
    ELSE timers

\* triggerAutosave without its clearTimeout: the timer already pending stays
TriggerAutosaveNoClear(handle, timers) ==
    IF ~isAutosaveEnabled
    THEN [handle |-> handle, timers |-> timers, calls |-> <<>>]
    ELSE [handle |-> AUTOSAVE_DELAY,
          timers |-> timers \cup {AUTOSAVE_DELAY},
          calls |-> <<"pending">>]

\* triggerAutosave arming its timer for a longer delay than AUTOSAVE_DELAY
TriggerAutosaveLate(handle, timers) ==
    IF ~isAutosaveEnabled
    THEN [handle |-> handle, timers |-> timers, calls |-> <<>>]
    ELSE [handle |-> AUTOSAVE_DELAY + Quantum,
          timers |-> (IF handle # NoTimer THEN timers \ {handle} ELSE timers)
                         \cup {AUTOSAVE_DELAY + Quantum},
          calls |-> <<"pending">>]

\* triggerAutosave without its updateAutosaveStatus('pending')
TriggerAutosaveSilent(handle, timers) ==
    IF ~isAutosaveEnabled
    THEN [handle |-> handle, timers |-> timers, calls |-> <<>>]
    ELSE [handle |-> AUTOSAVE_DELAY,
          timers |-> (IF handle # NoTimer THEN timers \ {handle} ELSE timers)
                         \cup {AUTOSAVE_DELAY},
          calls |-> <<>>]

\* triggerAutosave without its check of isAutosaveEnabled
TriggerAutosaveUnconditional(handle, timers) ==
    [handle |-> AUTOSAVE_DELAY,
     timers |-> (IF handle # NoTimer THEN timers \ {handle} ELSE timers)
                    \cup {AUTOSAVE_DELAY},
     calls |-> <<"pending">>]

\* triggerAutosave keeping the new timer's id in a local instead of
\* autosaveTimer: the next call has nothing to clear
TriggerAutosaveLosingHandle(handle, timers) ==
    IF ~isAutosaveEnabled
    THEN [handle |-> handle, timers |-> timers, calls |-> <<>>]
    ELSE [handle |-> handle,
          timers |-> (IF handle # NoTimer THEN timers \ {handle} ELSE timers)
                         \cup {AUTOSAVE_DELAY},
          calls |-> <<"pending">>]

\* triggerAutosave: the handle, the pending callbacks and the status calls
TriggerAutosave(handle, timers) ==
    IF ~isAutosaveEnabled
    THEN [handle |-> handle, timers |-> timers, calls |-> <<>>]
    ELSE [handle |-> AUTOSAVE_DELAY,
          timers |-> (IF handle # NoTimer THEN timers \ {handle} ELSE timers)
                         \cup {AUTOSAVE_DELAY},
          calls |-> <<"pending">>]

\* handleSaveError alerting for automatic saves as it does for manual ones
HandleSaveErrorAlerting(error, isAutomatic) ==
    [item |-> savedItem,
     calls |-> <<"error">>,
     dialogs |-> IF error = "QuotaExceededError" THEN <<"alert:quota">>
                 ELSE <<"alert:save-failed">>,
     outcome |-> IF error = "TypeError" THEN "error" ELSE "rejected"]

\* handleSaveError: the alert of a manual save, and the status; the outcome
\* tells a write the store rejected from any other exception
HandleSaveError(error, isAutomatic) ==
    [item |-> savedItem,
     calls |-> <<"error">>,
     dialogs |-> IF isAutomatic THEN <<>>
                 ELSE IF error = "QuotaExceededError" THEN <<"alert:quota">>
                 ELSE <<"alert:save-failed">>,
     outcome |-> IF error = "TypeError" THEN "error" ELSE "rejected"]

\* performSave writing empty documents on automatic saves too
PerformSaveNoSkip(isAutomatic, write) ==
    IF quill = "null" THEN HandleSaveError("TypeError", isAutomatic)
    ELSE LET saveData == [content |-> [ops |-> content],
                          wordCount |-> SaveWordCount(content)]
         IN  IF write # "ok" THEN HandleSaveError(write, isAutomatic)
             ELSE [item |-> JSONstringify(saveData),
                   calls |-> <<"saved">>,
                   dialogs |-> IF isAutomatic THEN <<>> ELSE <<"alert:saved">>,
                   outcome |-> "saved"]

\* performSave skipping empty documents on manual saves too
PerformSaveSkipEmpty(isAutomatic, write) ==
    IF quill = "null" THEN HandleSaveError("TypeError", isAutomatic)
    ELSE LET text == Trim(GetText(content))
             saveData == [content |-> [ops |-> content],
                          wordCount |-> SaveWordCount(content)]
         IN  IF Len(text) = 0
             THEN [item |-> savedItem, calls |-> <<"disabled">>, dialogs |-> <<>>,
                   outcome |-> "skipped"]
             ELSE IF write # "ok" THEN HandleSaveError(write, isAutomatic)
             ELSE [item |-> JSONstringify(saveData),
                   calls |-> <<"saved">>,
                   dialogs |-> IF isAutomatic THEN <<>> ELSE <<"alert:saved">>,
                   outcome |-> "saved"]

\* performSave(isAutomatic); write is what localStorage.setItem does:
\* "ok", "QuotaExceededError" or "Error"
PerformSave(isAutomatic, write) ==
    IF quill = "null" THEN HandleSaveError("TypeError", isAutomatic)
    ELSE LET text == Trim(GetText(content))
             saveData == [content |-> [ops |-> content],
                          wordCount |-> SaveWordCount(content)]
         IN  IF Len(text) = 0 /\ isAutomatic
             THEN [item |-> savedItem, calls |-> <<"disabled">>, dialogs |-> <<>>,
                   outcome |-> "skipped"]
             ELSE IF write # "ok" THEN HandleSaveError(write, isAutomatic)
             ELSE [item |-> JSONstringify(saveData),
                   calls |-> <<"saved">>,
                   dialogs |-> IF isAutomatic THEN <<>> ELSE <<"alert:saved">>,
                   outcome |-> "saved"]

\* the engine as it is, for the paths of a load that leave it alone
EngineKept(item, calls, boxes, threw, outcome) ==
    [content |-> content, undoStack |-> undoStack, redoStack |-> redoStack,
     wordCount |-> wordCount, item |-> item, calls |-> calls, dialogs |-> boxes,
     threw |-> threw, outcome |-> outcome,
     change |-> change,
     saved |-> IF item = savedItem THEN saved ELSE NoSave]

\* handleLoadError without its localStorage.removeItem: the record stays
HandleLoadErrorKeepingItem(error, confirmed) ==
    IF error \in {"SyntaxError", "Invalid"}
    THEN IF ~confirmed
         THEN EngineKept(savedItem, <<>>, <<"confirm:corrupted">>, FALSE, "declined")
         ELSE IF quill = "null"
              THEN EngineKept(savedItem, <<>>, <<"confirm:corrupted">>, TRUE, "threw")
              ELSE [content |-> <<>>,
                    undoStack |-> TransformedStack(undoStack),
                    redoStack |-> TransformedStack(redoStack),
                    wordCount |-> DisplayOf(<<>>),
                    item |-> savedItem,
                    calls |-> <<"ready">>,
                    dialogs |-> <<"confirm:corrupted", "alert:cleared">>,
                    threw |-> FALSE,
                    outcome |-> "cleared",
                    change |-> change,
                    saved |-> saved]
    ELSE EngineKept(savedItem, <<"error">>, <<"alert:load-failed">>, FALSE, "failed")

\* handleLoadError(error); confirmed is the answer to its confirm box
HandleLoadError(error, confirmed) ==
    IF error \in {"SyntaxError", "Invalid"}
    THEN IF ~confirmed
         THEN EngineKept(savedItem, <<>>, <<"confirm:corrupted">>, FALSE, "declined")
         ELSE IF quill = "null"
              THEN EngineKept(NoItem, <<>>, <<"confirm:corrupted">>, TRUE, "threw")
              ELSE [content |-> <<>>,
                    undoStack |-> TransformedStack(undoStack),
                    redoStack |-> TransformedStack(redoStack),
                    wordCount |-> DisplayOf(<<>>),
                    item |-> NoItem,
                    calls |-> <<"ready">>,
                    dialogs |-> <<"confirm:corrupted", "alert:cleared">>,
                    threw |-> FALSE,
                    outcome |-> "cleared",
                    change |-> change,
                    saved |-> NoSave]
    ELSE EngineKept(savedItem, <<"error">>, <<"alert:load-failed">>, FALSE, "failed")

\* the restore adding the record's content to the document (updateContents)
\* instead of replacing the document with it
RestoredAppending(ops) ==
    [content |-> content \o ops, undoStack |-> <<>>, redoStack |-> <<>>,
     wordCount |-> DisplayOf(content \o ops)]

\* the restore without its quill.history.clear()
RestoredKeepingHistory(ops) ==
    [content |-> ops, undoStack |-> undoStack, redoStack |-> redoStack,
     wordCount |-> DisplayOf(ops)]

\* the restore leaving the footer's counts as they were
RestoredStaleCount(ops) ==
    [content |-> ops, undoStack |-> <<>>, redoStack |-> <<>>,
     wordCount |-> wordCount]

\* what a restore leaves of the engine: quill.setContents(savedData.content),
\* quill.history.clear(); the editor's listener runs updateWordCount()
Restored(ops) ==
    [content |-> ops, undoStack |-> <<>>, redoStack |-> <<>>,
     wordCount |-> DisplayOf(ops)]

\* loadSavedDocument returning on an absent item without its
\* updateAutosaveStatus('ready')
LoadSavedDocumentSilent(confirmed) ==
    LET savedData == JSONparse(savedItem)
    IN  IF savedItem.shape = "absent"
        THEN EngineKept(savedItem, <<>>, <<>>, FALSE, "none")
        ELSE IF savedData.kind = "SyntaxError"
        THEN HandleLoadError("SyntaxError", confirmed)
        ELSE IF savedData.kind = "null"
        THEN HandleLoadError("TypeError", confirmed)
        ELSE IF ~savedData.hasContent \/ ~savedData.hasOps
        THEN HandleLoadError("Invalid", confirmed)
        ELSE IF quill = "null"
        THEN HandleLoadError("TypeError", confirmed)
        ELSE LET e == Restored(savedData.ops)
             IN  [content |-> e.content,
                  undoStack |-> e.undoStack,
                  redoStack |-> e.redoStack,
                  wordCount |-> e.wordCount,
                  item |-> savedItem,
                  calls |-> <<"loaded">>,
                  dialogs |-> <<>>,
                  threw |-> FALSE,
                  outcome |-> "loaded",
                  change |-> Cleared(change, "restore", undoStack),
                  saved |-> saved]

\* loadSavedDocument(); confirmed is the answer to the confirm box of
\* handleLoadError, should it be shown
LoadSavedDocument(confirmed) ==
    LET savedData == JSONparse(savedItem)
    IN  IF savedItem.shape = "absent"
        THEN EngineKept(savedItem, <<"ready">>, <<>>, FALSE, "none")
        ELSE IF savedData.kind = "SyntaxError"
        THEN HandleLoadError("SyntaxError", confirmed)
        ELSE IF savedData.kind = "null"
        THEN HandleLoadError("TypeError", confirmed)
        ELSE IF ~savedData.hasContent \/ ~savedData.hasOps
        THEN HandleLoadError("Invalid", confirmed)
        ELSE IF quill = "null"
        THEN HandleLoadError("TypeError", confirmed)
        ELSE LET e == Restored(savedData.ops)
             IN  [content |-> e.content,
                  undoStack |-> e.undoStack,
                  redoStack |-> e.redoStack,
                  wordCount |-> e.wordCount,
                  item |-> savedItem,
                  calls |-> <<"loaded">>,
                  dialogs |-> <<>>,
                  threw |-> FALSE,
                  outcome |-> "loaded",
                  change |-> Cleared(change, "restore", undoStack),
                  saved |-> saved]

\* ------------------------------------------------------------- page load

\* What a page load leaves of the page: the module-level code of the three
\* scripts and their DOMContentLoaded handlers.  engineOk: new Quill(...)
\* returns; probeOk: the write of isLocalStorageAvailable succeeds.
Fresh(engineOk, probeOk, theme) ==
    [quill |-> IF engineOk THEN "ready" ELSE "null",
     wordCount |-> IF engineOk THEN DisplayOf(<<>>) ELSE NoDisplay,
     darkMode |-> engineOk /\ theme = "dark",
     darkModeBtn |-> IF engineOk /\ theme = "dark" THEN "sun" ELSE "moon",
     isAutosaveEnabled |-> probeOk,
     autoSaveStatus |-> IF probeOk THEN "html" ELSE "error",
     dialogs |-> IF probeOk THEN <<>> ELSE <<"alert:no-storage">>,
     uncaught |-> ~engineOk]

IdleExportBtn == [disabled |-> FALSE, label |-> "PDF"]

Init ==
    \E engineOk \in BOOLEAN, probeOk \in BOOLEAN,
       item \in {NoItem} \cup {Malformed(sh) : sh \in MalformedShapes} :
        LET f == Fresh(engineOk, probeOk, "absent")
        IN  /\ quill = f.quill
            /\ content = <<>>
            /\ undoStack = <<>>
            /\ redoStack = <<>>
            /\ wordCount = f.wordCount
            /\ darkMode = f.darkMode
            /\ darkModeBtn = f.darkModeBtn
            /\ themeItem = "absent"
            /\ savedItem = item
            /\ isAutosaveEnabled = f.isAutosaveEnabled
            /\ autosaveTimer = NoTimer
            /\ autosaveTimers = {}
            /\ statusTimers = {}
            /\ importTimers = {}
            /\ startup = [phase |-> "wait", left |-> STARTUP_DELAY]
            /\ listening = FALSE
            /\ autoSaveStatus = f.autoSaveStatus
            /\ importBtn = "idle"
            /\ fileInput = "empty"
            /\ exportPc = "idle"
            /\ exportTimer = NoTimer
            /\ exportBtn = IdleExportBtn
            /\ overlays = 0
            /\ wrappers = 0
            /\ wrapperHtml = <<>>
            /\ downloads = 0
            /\ pdf = NoPdf
            /\ dialogs = f.dialogs
            /\ uncaught = f.uncaught
            /\ lastOp = [op |-> "load", outcome |-> "done"]
            /\ change = NoChange
            /\ saved = NoSave

\* the user reloads the page: the stored items survive, nothing else does
PageLoad ==
    \E engineOk \in BOOLEAN, probeOk \in BOOLEAN :
        LET f == Fresh(engineOk, probeOk, themeItem)
        IN  /\ quill' = f.quill
            /\ content' = <<>>
            /\ undoStack' = <<>>
            /\ redoStack' = <<>>
            /\ wordCount' = f.wordCount
            /\ darkMode' = f.darkMode
            /\ darkModeBtn' = f.darkModeBtn
            /\ isAutosaveEnabled' = f.isAutosaveEnabled
            /\ autosaveTimer' = NoTimer
            /\ autosaveTimers' = {}
            /\ statusTimers' = {}
            /\ importTimers' = {}
            /\ startup' = [phase |-> "wait", left |-> STARTUP_DELAY]
            /\ listening' = FALSE
            /\ autoSaveStatus' = f.autoSaveStatus
            /\ importBtn' = "idle"
            /\ fileInput' = "empty"
            /\ exportPc' = "idle"
            /\ exportTimer' = NoTimer
            /\ exportBtn' = IdleExportBtn
            /\ overlays' = 0
            /\ wrappers' = 0
            /\ wrapperHtml' = <<>>
            /\ downloads' = 0
            /\ pdf' = NoPdf
            /\ dialogs' = f.dialogs
            /\ uncaught' = f.uncaught
            /\ lastOp' = [op |-> "load", outcome |-> "done"]
            /\ change' = NoChange
            /\ saved' = Edited(saved)
            /\ UNCHANGED <<themeItem, savedItem>>

\* the body of both start-up callbacks: setupStorageListeners(),
\* loadSavedDocument(), updateAutosaveStatus()
RunStartup(confirmed) ==
    LET r == LoadSavedDocument(confirmed)
        calls == IF r.threw THEN r.calls ELSE Append(r.calls, "ready")
    IN  /\ listening' = (quill = "ready")
        /\ content' = r.content
        /\ undoStack' = r.undoStack
        /\ redoStack' = r.redoStack
        /\ wordCount' = r.wordCount
        /\ savedItem' = r.item
        /\ autoSaveStatus' = StatusAfter(autoSaveStatus, calls)
        /\ statusTimers' = StatusTimersAfter(statusTimers, calls)
        /\ startup' = [phase |-> "done", left |-> NoTimer]
        /\ dialogs' = r.dialogs
        /\ uncaught' = r.threw
        /\ lastOp' = [op |-> "startup", outcome |-> r.outcome]
        /\ change' = r.change
        /\ saved' = r.saved
        /\ UNCHANGED <<quill, themeVars, isAutosaveEnabled, autosaveTimer,
                       autosaveTimers, importTimers, importVars, exportVars>>

\* the callback set 200 ms after DOMContentLoaded
StartupTimer ==
    /\ startup.phase = "wait"
    /\ startup.left = 0
    /\ IF quill = "null"
       THEN /\ startup' = [phase |-> "retry", left |-> STARTUP_RETRY_DELAY]
            /\ dialogs' = <<>>
            /\ uncaught' = FALSE
            /\ lastOp' = [op |-> "startup", outcome |-> "retry"]
            /\ UNCHANGED <<editorVars, themeVars, savedItem, isAutosaveEnabled,
                           autosaveTimer, autosaveTimers, statusTimers, importTimers,
                           listening, autoSaveStatus, importVars, exportVars, ghostVars>>
       ELSE \E confirmed \in BOOLEAN : RunStartup(confirmed)

\* the retry set 500 ms later
StartupRetry ==
    /\ startup.phase = "retry"
    /\ startup.left = 0
    /\ \E confirmed \in BOOLEAN : RunStartup(confirmed)

\* ------------------------------------------------------------- the editor

\* A text-change event with source 'user': the editor's listener runs
\* updateWordCount(), the storage module's (once attached) triggerAutosave()
UserChange(newContent, newUndo, newRedo, op) ==
    LET t == IF listening THEN TriggerAutosave(autosaveTimer, autosaveTimers)
             ELSE [handle |-> autosaveTimer, timers |-> autosaveTimers, calls |-> <<>>]
    IN  /\ content' = newContent
        /\ undoStack' = newUndo
        /\ redoStack' = newRedo
        /\ wordCount' = DisplayOf(newContent)
        /\ autosaveTimer' = t.handle
        /\ autosaveTimers' = t.timers
        /\ autoSaveStatus' = StatusAfter(autoSaveStatus, t.calls)
        /\ statusTimers' = StatusTimersAfter(statusTimers, t.calls)
        /\ dialogs' = <<>>
        /\ uncaught' = FALSE
        /\ lastOp' = [op |-> op, outcome |-> "changed"]
        /\ change' = Changed(listening /\ isAutosaveEnabled,
                              listening /\ isAutosaveEnabled
                                  /\ \E left \in autosaveTimers : left < AUTOSAVE_DELAY)
        /\ saved' = Edited(saved)
        /\ UNCHANGED <<quill, themeVars, savedItem, isAutosaveEnabled, importTimers,
                       startup, listening, importVars, exportVars>>

\* a handler that changed nothing but what the user was shown
NoEffect(op, outcome, boxes) ==
    /\ dialogs' = boxes
    /\ uncaught' = FALSE
    /\ lastOp' = [op |-> op, outcome |-> outcome]
    /\ UNCHANGED <<editorVars, themeVars, storageVars, importVars, exportVars, ghostVars>>

\* the user types c at the end of the document
UserType ==
    /\ quill = "ready"
    /\ Len(content) < MaxLen
    /\ \E c \in Chars :
        UserChange(Append(content, c),
                   Recorded(undoStack, [undo |-> [del |-> 1, ins |-> <<>>],
                                        redo |-> [del |-> 0, ins |-> <<c>>]]),
                   <<>>, "type")

\* the user deletes the last character
UserBackspace ==
    /\ quill = "ready"
    /\ Len(content) > 0
    /\ UserChange(SubSeq(content, 1, Len(content) - 1),
                  Recorded(undoStack, [undo |-> [del |-> 0, ins |-> <<content[Len(content)]>>],
                                       redo |-> [del |-> 1, ins |-> <<>>]]),
                  <<>>, "backspace")

\* undoChange without its check of the engine reference: quill.history of a
\* null reference throws
UndoChangeUnguarded ==
    IF quill = "null"
    THEN /\ dialogs' = <<>>
         /\ uncaught' = TRUE
         /\ lastOp' = [op |-> "undo", outcome |-> "threw"]
         /\ UNCHANGED <<editorVars, themeVars, storageVars, importVars, exportVars,
                        ghostVars>>
    ELSE IF undoStack = <<>> \/ undoStack[Len(undoStack)].undo = NoDelta
    THEN /\ undoStack' = IF undoStack = <<>> THEN <<>>
                         ELSE SubSeq(undoStack, 1, Len(undoStack) - 1)
         /\ redoStack' = IF undoStack = <<>> THEN redoStack
                         ELSE Append(redoStack, undoStack[Len(undoStack)])
         /\ dialogs' = <<>>
         /\ uncaught' = FALSE
         /\ lastOp' = [op |-> "undo", outcome |-> "nothing"]
         /\ UNCHANGED <<quill, content, wordCount, themeVars, storageVars,
                        importVars, exportVars, ghostVars>>
    ELSE LET e == undoStack[Len(undoStack)]
         IN  /\ Len(ApplyDelta(e.undo, content)) <= MaxLen
             /\ UserChange(ApplyDelta(e.undo, content),
                           SubSeq(undoStack, 1, Len(undoStack) - 1),
                           Append(redoStack, e), "undo")

\* undoChange(): returns if the engine is missing; quill.history.undo()
\* applies the top entry with source 'user'
UndoChange ==
    IF quill = "null" THEN NoEffect("undo", "noengine", <<>>)
    ELSE
    /\ quill = "ready"
    /\ IF undoStack = <<>> \/ undoStack[Len(undoStack)].undo = NoDelta
       THEN /\ undoStack' = IF undoStack = <<>> THEN <<>>
                            ELSE SubSeq(undoStack, 1, Len(undoStack) - 1)
            /\ redoStack' = IF undoStack = <<>> THEN redoStack
                            ELSE Append(redoStack, undoStack[Len(undoStack)])
            /\ dialogs' = <<>>
            /\ uncaught' = FALSE
            /\ lastOp' = [op |-> "undo", outcome |-> "nothing"]
            /\ UNCHANGED <<quill, content, wordCount, themeVars, storageVars,
                           importVars, exportVars, ghostVars>>
       ELSE LET e == undoStack[Len(undoStack)]
            IN  /\ Len(ApplyDelta(e.undo, content)) <= MaxLen
                /\ UserChange(ApplyDelta(e.undo, content),
                           SubSeq(undoStack, 1, Len(undoStack) - 1),
                           Append(redoStack, e), "undo")

\* redoChange(): quill.history.redo()
RedoChange ==
    IF quill = "null" THEN NoEffect("redo", "noengine", <<>>)
    ELSE
    /\ quill = "ready"
    /\ IF redoStack = <<>> \/ redoStack[Len(redoStack)].redo = NoDelta
       THEN /\ redoStack' = IF redoStack = <<>> THEN <<>>
                            ELSE SubSeq(redoStack, 1, Len(redoStack) - 1)
            /\ undoStack' = IF redoStack = <<>> THEN undoStack
                            ELSE Append(undoStack, redoStack[Len(redoStack)])
            /\ dialogs' = <<>>
            /\ uncaught' = FALSE
            /\ lastOp' = [op |-> "redo", outcome |-> "nothing"]
            /\ UNCHANGED <<quill, content, wordCount, themeVars, storageVars,
                           importVars, exportVars, ghostVars>>
       ELSE LET e == redoStack[Len(redoStack)]
            IN  /\ Len(ApplyDelta(e.redo, content)) <= MaxLen
                /\ UserChange(ApplyDelta(e.redo, content),
                           Append(undoStack, e),
                           SubSeq(redoStack, 1, Len(redoStack) - 1), "redo")

\* createNewDocument without its quill.history.clear(): the entries stay,
\* transformed by the api change of setText('')
NewDocumentKeepingHistory(doc, undos, redos) ==
    [content |-> <<>>, undoStack |-> TransformedStack(undos),
     redoStack |-> TransformedStack(redos), wordCount |-> DisplayOf(<<>>)]

\* what createNewDocument() leaves of the engine once confirmed:
\* quill.setText(''), quill.history.clear(), updateWordCount()
NewDocument(doc, undos, redos) ==
    [content |-> <<>>, undoStack |-> <<>>, redoStack |-> <<>>,
     wordCount |-> DisplayOf(<<>>)]

\* createNewDocument with its setText('') emitted as a user change: the
\* storage module's listener calls triggerAutosave
CreateNewDocumentArming ==
    /\ quill = "ready"
    /\ \E confirmed \in BOOLEAN :
        IF ~confirmed
        THEN NoEffect("newDoc", "declined", <<"confirm:new">>)
        ELSE LET n == NewDocument(content, undoStack, redoStack)
                 t == TriggerAutosave(autosaveTimer, autosaveTimers)
             IN  /\ content' = n.content
                 /\ undoStack' = n.undoStack
                 /\ redoStack' = n.redoStack
                 /\ wordCount' = n.wordCount
                 /\ autosaveTimer' = t.handle
                 /\ autosaveTimers' = t.timers
                 /\ autoSaveStatus' = StatusAfter(autoSaveStatus, t.calls)
                 /\ dialogs' = <<"confirm:new">>
                 /\ uncaught' = FALSE
                 /\ lastOp' = [op |-> "newDoc", outcome |-> "confirmed"]
                 /\ change' = Cleared(change, "newDoc", undoStack)
                 /\ saved' = Edited(saved)
                 /\ UNCHANGED <<quill, themeVars, savedItem, isAutosaveEnabled,
                                statusTimers, importTimers, startup, listening,
                                importVars, exportVars>>

\* createNewDocument clearing the document whatever the answer to its
\* confirm box
CreateNewDocumentUnconfirmed ==
    /\ quill = "ready"
    /\ \E confirmed \in BOOLEAN :
        LET n == NewDocument(content, undoStack, redoStack)
        IN  /\ content' = n.content
            /\ undoStack' = n.undoStack
            /\ redoStack' = n.redoStack
            /\ wordCount' = n.wordCount
            /\ dialogs' = <<"confirm:new">>
            /\ uncaught' = FALSE
            /\ lastOp' = [op |-> "newDoc",
                          outcome |-> IF confirmed THEN "confirmed" ELSE "declined"]
            /\ change' = Cleared(change, "newDoc", undoStack)
            /\ saved' = Edited(saved)
            /\ UNCHANGED <<quill, themeVars, storageVars, importVars, exportVars>>

\* createNewDocument with its localStorage.removeItem not commented out
CreateNewDocumentRemovingItem ==
    IF quill = "null" THEN NoEffect("newDoc", "noengine", <<>>)
    ELSE
    /\ quill = "ready"
    /\ \E confirmed \in BOOLEAN :
        IF ~confirmed
        THEN NoEffect("newDoc", "declined", <<"confirm:new">>)
        ELSE LET n == NewDocument(content, undoStack, redoStack)
             IN  /\ content' = n.content
                 /\ undoStack' = n.undoStack
                 /\ redoStack' = n.redoStack
                 /\ wordCount' = n.wordCount
                 /\ dialogs' = <<"confirm:new">>
                 /\ uncaught' = FALSE
                 /\ lastOp' = [op |-> "newDoc", outcome |-> "confirmed"]
                 /\ change' = Cleared(change, "newDoc", undoStack)
                 /\ saved' = NoSave
                 /\ savedItem' = NoItem
                 /\ UNCHANGED <<quill, themeVars, isAutosaveEnabled, autosaveTimer,
                                autosaveTimers, statusTimers, importTimers, startup,
                                listening, autoSaveStatus, importVars, exportVars>>

\* createNewDocument()
CreateNewDocument ==
    IF quill = "null" THEN NoEffect("newDoc", "noengine", <<>>)
    ELSE
    /\ quill = "ready"
    /\ \E confirmed \in BOOLEAN :
        IF ~confirmed
        THEN NoEffect("newDoc", "declined", <<"confirm:new">>)
        ELSE LET n == NewDocument(content, undoStack, redoStack)
             IN  /\ content' = n.content
                 /\ undoStack' = n.undoStack
                 /\ redoStack' = n.redoStack
                 /\ wordCount' = n.wordCount
                 /\ dialogs' = <<"confirm:new">>
                 /\ uncaught' = FALSE
                 /\ lastOp' = [op |-> "newDoc", outcome |-> "confirmed"]
                 /\ change' = Cleared(change, "newDoc", undoStack)
                 /\ saved' = Edited(saved)
                 /\ UNCHANGED <<quill, themeVars, storageVars, importVars,
                                exportVars>>

\* what localStorage.setItem may do
Writes == {"ok", "QuotaExceededError", "Error"}

\* toggleDarkMode(): the class, the icon, then the stored preference
ToggledTheme(dark, write, stored) ==
    [darkMode |-> ~dark,
     darkModeBtn |-> IF ~dark THEN "sun" ELSE "moon",
     themeItem |-> IF write # "ok" THEN stored
                   ELSE IF ~dark THEN "dark" ELSE "light",
     threw |-> write # "ok"]

ToggleDarkMode ==
    /\ quill = "ready"
    /\ \E write \in Writes :
        LET t == ToggledTheme(darkMode, write, themeItem)
        IN  /\ darkMode' = t.darkMode
            /\ darkModeBtn' = t.darkModeBtn
            /\ themeItem' = t.themeItem
            /\ dialogs' = <<>>
            /\ uncaught' = t.threw
            /\ lastOp' = [op |-> "toggleTheme", outcome |-> IF t.threw THEN "threw" ELSE "done"]
            /\ UNCHANGED <<editorVars, storageVars, importVars, exportVars, ghostVars>>

\* ------------------------------------------------ storage module: handlers

\* the manual save also clearing the engine's history
ManualSaveClearingHistory ==
    /\ startup.phase = "done" \/ quill = "ready"
    /\ Cardinality(statusTimers) < MaxStatusTimers
    /\ \E write \in Writes :
        LET r == PerformSave(FALSE, write)
        IN  /\ savedItem' = r.item
            /\ autoSaveStatus' = StatusAfter(autoSaveStatus, r.calls)
            /\ statusTimers' = StatusTimersAfter(statusTimers, r.calls)
            /\ dialogs' = r.dialogs
            /\ uncaught' = FALSE
            /\ lastOp' = [op |-> "manualSave", outcome |-> r.outcome]
            /\ saved' = IF r.outcome = "saved" THEN JustSaved(content) ELSE saved
            /\ undoStack' = <<>>
            /\ redoStack' = <<>>
            /\ UNCHANGED <<quill, content, wordCount, themeVars, isAutosaveEnabled, autosaveTimer,
                           autosaveTimers, importTimers, startup, listening,
                           importVars, exportVars, change>>

\* the manual save cancelling the armed autosave timer
ManualSaveCancellingTimer ==
    /\ startup.phase = "done" \/ quill = "ready"
    /\ Cardinality(statusTimers) < MaxStatusTimers
    /\ \E write \in Writes :
        LET r == PerformSave(FALSE, write)
        IN  /\ savedItem' = r.item
            /\ autoSaveStatus' = StatusAfter(autoSaveStatus, r.calls)
            /\ statusTimers' = StatusTimersAfter(statusTimers, r.calls)
            /\ dialogs' = r.dialogs
            /\ uncaught' = FALSE
            /\ lastOp' = [op |-> "manualSave", outcome |-> r.outcome]
            /\ saved' = IF r.outcome = "saved" THEN JustSaved(content) ELSE saved
            /\ autosaveTimers' = {}
            /\ autosaveTimer' = IF autosaveTimer >= 0 THEN Stale ELSE autosaveTimer
            /\ UNCHANGED <<editorVars, themeVars, isAutosaveEnabled, importTimers,
                           startup, listening, importVars, exportVars, change>>

\* manualSave(): the Save button (attached by setupStorageListeners) or
\* Ctrl+S (attached by setupKeyboardShortcuts)
ManualSave ==
    /\ startup.phase = "done" \/ quill = "ready"
    /\ Cardinality(statusTimers) < MaxStatusTimers
    /\ \E write \in Writes :
        LET r == PerformSave(FALSE, write)
        IN  /\ savedItem' = r.item
            /\ autoSaveStatus' = StatusAfter(autoSaveStatus, r.calls)
            /\ statusTimers' = StatusTimersAfter(statusTimers, r.calls)
            /\ dialogs' = r.dialogs
            /\ uncaught' = FALSE
            /\ lastOp' = [op |-> "manualSave", outcome |-> r.outcome]
            /\ saved' = IF r.outcome = "saved" THEN JustSaved(content) ELSE saved
            /\ UNCHANGED <<editorVars, themeVars, isAutosaveEnabled, autosaveTimer,
                           autosaveTimers, importTimers, startup, listening,
                           importVars, exportVars, change>>

\* the autosave timer's callback: performSave(true)
AutosaveFire ==
    /\ 0 \in autosaveTimers
    /\ \E write \in Writes :
        LET r == PerformSave(TRUE, write)
        IN  /\ savedItem' = r.item
            /\ autosaveTimers' = autosaveTimers \ {0}
            /\ autosaveTimer' = IF autosaveTimer = 0 THEN Stale ELSE autosaveTimer
            /\ autoSaveStatus' = StatusAfter(autoSaveStatus, r.calls)
            /\ statusTimers' = StatusTimersAfter(statusTimers, r.calls)
            /\ dialogs' = r.dialogs
            /\ uncaught' = FALSE
            /\ lastOp' = [op |-> "autosave", outcome |-> r.outcome]
            /\ change' = AutoSaved(change)
            /\ saved' = IF r.outcome = "saved" THEN JustSaved(content) ELSE saved
            /\ UNCHANGED <<editorVars, themeVars, isAutosaveEnabled, importTimers,
                           startup, listening, importVars, exportVars>>

\* the callback of updateAutosaveStatus's timer: updateAutosaveStatus('ready')
StatusReset ==
    /\ 0 \in statusTimers
    /\ statusTimers' = statusTimers \ {0}
    /\ autoSaveStatus' = StatusAfter(autoSaveStatus, <<"ready">>)
    /\ dialogs' = <<>>
    /\ uncaught' = FALSE
    /\ lastOp' = [op |-> "statusReset", outcome |-> "done"]
    /\ UNCHANGED <<editorVars, themeVars, savedItem, isAutosaveEnabled, autosaveTimer,
                   autosaveTimers, importTimers, startup, listening, importVars,
                   exportVars, ghostVars>>

\* manualLoad(): after loadSavedDocument() the item is read again for the report
LoadReport(r) ==
    LET again == JSONparse(r.item)
    IN  IF r.threw THEN [dialogs |-> r.dialogs, threw |-> TRUE]
        ELSE IF r.item.shape = "absent" THEN [dialogs |-> r.dialogs, threw |-> FALSE]
        ELSE IF again.kind \in {"SyntaxError", "null"}
        THEN [dialogs |-> r.dialogs, threw |-> TRUE]
        ELSE [dialogs |-> Append(r.dialogs, "alert:loaded-from"), threw |-> FALSE]

\* manualLoad running loadSavedDocument whatever the answer to its confirm box
ManualLoadUnconfirmed ==
    /\ startup.phase = "done"
    /\ Cardinality(statusTimers) < MaxStatusTimers
    /\ \E confirmed \in BOOLEAN, confirmedClear \in BOOLEAN :
        LET r == LoadSavedDocument(confirmedClear)
            report == LoadReport(r)
        IN  /\ content' = r.content
            /\ undoStack' = r.undoStack
            /\ redoStack' = r.redoStack
            /\ wordCount' = r.wordCount
            /\ savedItem' = r.item
            /\ autoSaveStatus' = StatusAfter(autoSaveStatus, r.calls)
            /\ statusTimers' = StatusTimersAfter(statusTimers, r.calls)
            /\ dialogs' = <<"confirm:load">> \o report.dialogs
            /\ uncaught' = report.threw
            /\ lastOp' = [op |-> "manualLoad",
                          outcome |-> IF confirmed THEN r.outcome ELSE "cancelled"]
            /\ change' = r.change
            /\ saved' = r.saved
            /\ UNCHANGED <<quill, themeVars, isAutosaveEnabled, autosaveTimer,
                           autosaveTimers, importTimers, startup, listening,
                           importVars, exportVars>>

ManualLoad ==
    /\ startup.phase = "done"
    /\ Cardinality(statusTimers) < MaxStatusTimers
    /\ \E confirmed \in BOOLEAN, confirmedClear \in BOOLEAN :
        IF ~confirmed
        THEN NoEffect("manualLoad", "cancelled", <<"confirm:load">>)
        ELSE LET r == LoadSavedDocument(confirmedClear)
                 report == LoadReport(r)
             IN  /\ content' = r.content
                 /\ undoStack' = r.undoStack
                 /\ redoStack' = r.redoStack
                 /\ wordCount' = r.wordCount
                 /\ savedItem' = r.item
                 /\ autoSaveStatus' = StatusAfter(autoSaveStatus, r.calls)
                 /\ statusTimers' = StatusTimersAfter(statusTimers, r.calls)
                 /\ dialogs' = <<"confirm:load">> \o report.dialogs
                 /\ uncaught' = report.threw
                 /\ lastOp' = [op |-> "manualLoad", outcome |-> r.outcome]
                 /\ change' = r.change
                 /\ saved' = r.saved
                 /\ UNCHANGED <<quill, themeVars, isAutosaveEnabled, autosaveTimer,
                                autosaveTimers, importTimers, startup, listening,
                                importVars, exportVars>>

\* ---------------------------------------------------------- import module

HasText(doc) == Len(Trim(GetText(doc))) > 0

\* the documents a .docx file converts to: without text, or with some
ImportDocs == {<<>>, <<Letter>>}

\* handleFileSelect up to its await: the file is missing, has the wrong
\* extension, is too large, or is a .docx file within the size limit.  The
\* paths that return early have reset the file input the selection had set
ImportSelect ==
    /\ quill = "ready"
    /\ importBtn = "idle"
    /\ \E file \in {"none", "badext", "toolarge", "docx"}, confirmed \in BOOLEAN :
        IF file = "none" THEN NoEffect("import", "nofile", <<>>)
        ELSE IF file = "badext" THEN NoEffect("import", "rejected", <<"alert:bad-type">>)
        ELSE IF file = "toolarge" THEN NoEffect("import", "rejected", <<"alert:too-large">>)
        ELSE IF HasText(content) /\ ~confirmed
        THEN NoEffect("import", "declined", <<"confirm:replace">>)
        ELSE /\ importBtn' = "reading"
             /\ fileInput' = "selected"
             /\ dialogs' = IF HasText(content) THEN <<"confirm:replace">> ELSE <<>>
             /\ uncaught' = FALSE
             /\ lastOp' = [op |-> "import", outcome |-> "started"]
             /\ UNCHANGED <<editorVars, themeVars, storageVars, exportVars, ghostVars>>

\* the catch block of handleFileSelect without the finally block
ImportFailedLeavingControl ==
    /\ UNCHANGED <<importBtn, fileInput>>
    /\ dialogs' = <<"alert:import-failed">>
    /\ uncaught' = FALSE
    /\ lastOp' = [op |-> "import", outcome |-> "failed"]
    /\ UNCHANGED <<editorVars, themeVars, storageVars, exportVars, ghostVars>>

\* the catch and finally blocks of handleFileSelect
ImportFailed ==
    /\ importBtn' = "idle"
    /\ fileInput' = "empty"
    /\ dialogs' = <<"alert:import-failed">>
    /\ uncaught' = FALSE
    /\ lastOp' = [op |-> "import", outcome |-> "failed"]
    /\ UNCHANGED <<editorVars, themeVars, storageVars, exportVars, ghostVars>>

\* readFileAsArrayBuffer settles
ImportRead ==
    /\ importBtn = "reading"
    /\ \E ok \in BOOLEAN :
        IF ~ok THEN ImportFailed
        ELSE /\ importBtn' = "converting"
             /\ UNCHANGED fileInput
             /\ dialogs' = <<>>
             /\ uncaught' = FALSE
             /\ lastOp' = [op |-> "import", outcome |-> "read"]
             /\ UNCHANGED <<editorVars, themeVars, storageVars, exportVars, ghostVars>>

\* mammoth.convertToHtml settles; on success insertHtmlIntoQuill(html):
\* setText(''), setContents(delta), history.clear(), setTimeout(triggerAutosave, 500)
ImportConvert ==
    /\ importBtn = "converting"
    /\ \E ok \in BOOLEAN, doc \in ImportDocs :
        IF ~ok THEN ImportFailed
        ELSE /\ content' = doc
             /\ undoStack' = <<>>
             /\ redoStack' = <<>>
             /\ wordCount' = DisplayOf(doc)
             /\ importTimers' = importTimers \cup {IMPORT_AUTOSAVE_DELAY}
             /\ importBtn' = "idle"
             /\ fileInput' = "empty"
             /\ dialogs' = <<"alert:imported">>
             /\ uncaught' = FALSE
             /\ lastOp' = [op |-> "import", outcome |-> "imported"]
             /\ change' = Cleared(change, "import", undoStack)
             /\ saved' = Edited(saved)
             /\ UNCHANGED <<quill, themeVars, savedItem, isAutosaveEnabled,
                            autosaveTimer, autosaveTimers, statusTimers, startup,
                            listening, autoSaveStatus, exportVars>>

\* the callback of the import's timer: triggerAutosave()
ImportTrigger ==
    /\ 0 \in importTimers
    /\ LET t == TriggerAutosave(autosaveTimer, autosaveTimers)
       IN  /\ importTimers' = importTimers \ {0}
           /\ autosaveTimer' = t.handle
           /\ autosaveTimers' = t.timers
           /\ autoSaveStatus' = StatusAfter(autoSaveStatus, t.calls)
           /\ statusTimers' = StatusTimersAfter(statusTimers, t.calls)
           /\ dialogs' = <<>>
           /\ uncaught' = FALSE
           /\ lastOp' = [op |-> "importTrigger", outcome |-> "done"]
           /\ change' = IF isAutosaveEnabled THEN Retriggered(change) ELSE change
           /\ UNCHANGED <<editorVars, themeVars, savedItem, isAutosaveEnabled,
                          startup, listening, importVars, exportVars, saved>>

\* ---------------------------------------------------------- export module

\* the catch block leaving the overlay in the page
ExportCatchLeavingOverlay(ov, wr, ovAttached, wrAttached) ==
    /\ overlays' = ov
    /\ wrappers' = IF wrAttached THEN wr - 1 ELSE wr
    /\ exportBtn' = IdleExportBtn
    /\ exportPc' = "idle"
    /\ exportTimer' = NoTimer
    /\ dialogs' = <<"alert:export-failed">>
    /\ uncaught' = FALSE
    /\ lastOp' = [op |-> "export", outcome |-> "failed"]
    /\ UNCHANGED <<editorVars, themeVars, storageVars, importVars, wrapperHtml,
                   ghostVars>>

\* the catch block of the click handler: the alert with error.message, the
\* wrapper and the overlay removed if they were attached, the control back.
\* ov, wr: the elements in the page when the exception was thrown.
ExportCatch(ov, wr, ovAttached, wrAttached) ==
    /\ overlays' = IF ovAttached THEN ov - 1 ELSE ov
    /\ wrappers' = IF wrAttached THEN wr - 1 ELSE wr
    /\ exportBtn' = IdleExportBtn
    /\ exportPc' = "idle"
    /\ exportTimer' = NoTimer
    /\ dialogs' = <<"alert:export-failed">>
    /\ uncaught' = FALSE
    /\ lastOp' = [op |-> "export", outcome |-> "failed"]
    /\ UNCHANGED <<editorVars, themeVars, storageVars, importVars, wrapperHtml,
                   ghostVars>>

\* staging throws: creating the overlay (nothing is attached yet), or copying
\* and styling the markup (the overlay is attached, the wrapper is not)
ExportStagingFailed ==
    \E at \in {"overlay", "wrapper"} :
        /\ downloads' = 0
        /\ pdf' = NoPdf
        /\ IF at = "overlay"
           THEN ExportCatch(overlays, wrappers, FALSE, FALSE)
           ELSE ExportCatch(overlays + 1, wrappers, TRUE, FALSE)

\* the click handler leaving the control enabled while the export runs
ExportStartNotDisabling ==
    /\ exportBtn' = exportBtn
    /\ overlays' = overlays + 1
    /\ wrappers' = wrappers + 1
    /\ wrapperHtml' = content
    /\ exportTimer' = EXPORT_RENDER_DELAY
    /\ exportPc' = "settling"
    /\ downloads' = 0
    /\ pdf' = NoPdf
    /\ dialogs' = <<>>
    /\ uncaught' = FALSE
    /\ lastOp' = [op |-> "export", outcome |-> "started"]
    /\ UNCHANGED <<editorVars, themeVars, storageVars, importVars, ghostVars>>

\* what the click handler does once past its two checks
ExportStart ==
    /\ exportBtn' = [disabled |-> TRUE, label |-> "Exporting"]
    /\ overlays' = overlays + 1
    /\ wrappers' = wrappers + 1
    /\ wrapperHtml' = content
    /\ exportTimer' = EXPORT_RENDER_DELAY
    /\ exportPc' = "settling"
    /\ downloads' = 0
    /\ pdf' = NoPdf
    /\ dialogs' = <<>>
    /\ uncaught' = FALSE
    /\ lastOp' = [op |-> "export", outcome |-> "started"]
    /\ UNCHANGED <<editorVars, themeVars, storageVars, importVars, ghostVars>>

\* the click handler without its empty-document check
ExportClickUnchecked ==
    /\ ~exportBtn.disabled
    /\ IF quill = "null"
       THEN NoEffect("export", "aborted", <<"alert:no-editor">>)
       ELSE ExportStart

\* the click handler of the export control up to its first await; a click on
\* the disabled control raises no event, and Ctrl+P checks the same flag
ExportClick ==
    /\ ~exportBtn.disabled
    /\ IF quill = "null"
       THEN NoEffect("export", "aborted", <<"alert:no-editor">>)
       ELSE IF Len(Trim(GetText(content))) = 0
       THEN NoEffect("export", "aborted", <<"alert:empty">>)
       ELSE ExportStart \/ ExportStagingFailed

\* Ctrl+P (the keydown listener is attached once the engine is initialized):
\* exportBtn.click() unless the control is disabled
ExportShortcut ==
    /\ quill = "ready"
    /\ IF exportBtn.disabled
       THEN NoEffect("exportShortcut", "ignored", <<>>)
       ELSE ExportClick

\* the rendering pause is over: html2canvas(wrapper, ...) is called
ExportRasterize ==
    /\ exportPc = "settling"
    /\ exportTimer = 0
    /\ exportPc' = "rasterizing"
    /\ exportTimer' = NoTimer
    /\ dialogs' = <<>>
    /\ uncaught' = FALSE
    /\ lastOp' = [op |-> "export", outcome |-> "rasterizing"]
    /\ UNCHANGED <<editorVars, themeVars, storageVars, importVars, exportBtn,
                   overlays, wrappers, wrapperHtml, downloads, pdf, ghostVars>>

\* html2canvas given the editor's root instead of the staging container
ExportAssembleFromEditor ==
    /\ exportPc = "rasterizing"
    /\ \E result \in {"ok", "raster-failed", "pdf-failed"}, height \in WrapperHeights :
        IF result = "ok"
        THEN /\ downloads' = downloads + 1
             /\ pdf' = AssemblePdf(Html2canvas(content, height))
             /\ exportTimer' = EXPORT_CLEANUP_DELAY
             /\ exportPc' = "cleanup"
             /\ dialogs' = <<>>
             /\ uncaught' = FALSE
             /\ lastOp' = [op |-> "export", outcome |-> "saved"]
             /\ UNCHANGED <<editorVars, themeVars, storageVars, importVars,
                            exportBtn, overlays, wrappers, wrapperHtml, ghostVars>>
        ELSE /\ ExportCatch(overlays, wrappers, overlays > 0, wrappers > 0)
             /\ UNCHANGED <<downloads, pdf>>

\* html2canvas settles (height is what the browser has laid the staging
\* container out to); on success the PDF is assembled and saved, which may
\* throw before or in pdf.save; a failure runs the catch block
ExportAssemble ==
    /\ exportPc = "rasterizing"
    /\ \E result \in {"ok", "raster-failed", "pdf-failed"}, height \in WrapperHeights :
        IF result = "ok"
        THEN /\ downloads' = downloads + 1
             /\ pdf' = AssemblePdf(Html2canvas(wrapperHtml, height))
             /\ exportTimer' = EXPORT_CLEANUP_DELAY
             /\ exportPc' = "cleanup"
             /\ dialogs' = <<>>
             /\ uncaught' = FALSE
             /\ lastOp' = [op |-> "export", outcome |-> "saved"]
             /\ UNCHANGED <<editorVars, themeVars, storageVars, importVars,
                            exportBtn, overlays, wrappers, wrapperHtml, ghostVars>>
        ELSE /\ ExportCatch(overlays, wrappers, overlays > 0, wrappers > 0)
             /\ UNCHANGED <<downloads, pdf>>

\* the success path's clean-up removing the staging container only
ExportFinishKeepingOverlay ==
    /\ exportPc = "cleanup"
    /\ exportTimer = 0
    /\ wrappers' = wrappers - 1
    /\ overlays' = overlays
    /\ exportBtn' = [disabled |-> FALSE, label |-> "PDF"]
    /\ exportPc' = "idle"
    /\ exportTimer' = NoTimer
    /\ dialogs' = <<"alert:exported">>
    /\ uncaught' = FALSE
    /\ lastOp' = [op |-> "export", outcome |-> "finished"]
    /\ pdf' = NoPdf
    /\ UNCHANGED <<editorVars, themeVars, storageVars, importVars, wrapperHtml,
                   downloads, ghostVars>>

\* the clean-up pause is over: the staging elements go, the control is back
ExportFinish ==
    /\ exportPc = "cleanup"
    /\ exportTimer = 0
    /\ wrappers' = wrappers - 1
    /\ overlays' = overlays - 1
    /\ exportBtn' = [disabled |-> FALSE, label |-> "PDF"]
    /\ exportPc' = "idle"
    /\ exportTimer' = NoTimer
    /\ dialogs' = <<"alert:exported">>
    /\ uncaught' = FALSE
    /\ lastOp' = [op |-> "export", outcome |-> "finished"]
    /\ pdf' = NoPdf
    /\ UNCHANGED <<editorVars, themeVars, storageVars, importVars, wrapperHtml,
                   downloads, ghostVars>>

\* ------------------------------------------------------------------- time

Pending(t) == IF t = NoTimer THEN {} ELSE {t}

AllTimers ==
    autosaveTimers \cup statusTimers \cup importTimers
        \cup Pending(startup.left) \cup Pending(exportTimer)

Later(timers, d) == {t - d : t \in timers}

\* d ms pass; no pending timer is overrun
Tick(d) ==
    /\ d > 0
    /\ \A t \in AllTimers : t >= d
    /\ autosaveTimers' = Later(autosaveTimers, d)
    /\ statusTimers' = Later(statusTimers, d)
    /\ importTimers' = Later(importTimers, d)
    /\ autosaveTimer' = IF autosaveTimer >= 0 THEN autosaveTimer - d ELSE autosaveTimer
    /\ startup' = IF startup.left = NoTimer THEN startup
                  ELSE [startup EXCEPT !.left = @ - d]
    /\ exportTimer' = IF exportTimer = NoTimer THEN NoTimer ELSE exportTimer - d
    /\ change' = Aged(change, d)
    /\ UNCHANGED <<editorVars, themeVars, savedItem, isAutosaveEnabled, listening,
                   autoSaveStatus, importVars, exportPc, exportBtn, overlays,
                   wrappers, wrapperHtml, downloads, pdf, uiVars, saved>>

\* time runs to the next quantum or to the next timer expiry
Pass == \E d \in {Quantum} \cup AllTimers : Tick(d)

\* clearSavedDocument deleting the record without asking
ClearSavedDocumentUnconfirmed ==
    /\ savedItem' = NoItem
    /\ autoSaveStatus' = StatusAfter(autoSaveStatus, <<"ready">>)
    /\ statusTimers' = StatusTimersAfter(statusTimers, <<"ready">>)
    /\ dialogs' = <<"alert:deleted">>
    /\ uncaught' = FALSE
    /\ lastOp' = [op |-> "clearSaved",
                  outcome |-> IF savedItem = NoItem THEN "nothing" ELSE "cleared"]
    /\ saved' = NoSave
    /\ UNCHANGED <<editorVars, themeVars, isAutosaveEnabled, autosaveTimer,
                   autosaveTimers, importTimers, startup, listening, importVars,
                   exportVars, change>>

\* clearSavedDocument: the user is asked; on yes the item is removed, an alert
\* reports it and the status is set to ready (the outcome notes whether
\* there was an item to remove)
ClearSavedDocument ==
    \E confirmed \in BOOLEAN :
        IF ~confirmed
        THEN NoEffect("clearSaved", "cancelled", <<"confirm:delete-saved">>)
        ELSE /\ savedItem' = NoItem
             /\ autoSaveStatus' = StatusAfter(autoSaveStatus, <<"ready">>)
             /\ statusTimers' = StatusTimersAfter(statusTimers, <<"ready">>)
             /\ dialogs' = <<"confirm:delete-saved", "alert:deleted">>
             /\ uncaught' = FALSE
             /\ lastOp' = [op |-> "clearSaved",
                           outcome |-> IF savedItem = NoItem THEN "nothing"
                                       ELSE "cleared"]
             /\ saved' = NoSave
             /\ UNCHANGED <<editorVars, themeVars, isAutosaveEnabled, autosaveTimer,
                            autosaveTimers, importTimers, startup, listening,
                            importVars, exportVars, change>>

\* -------------------------------------------------------- specifications

\* what every specification has: page load, start-up, typing, the timers
Core ==
    \/ PageLoad
    \/ StartupTimer
    \/ StartupRetry
    \/ UserType
    \/ UserBackspace
    \/ AutosaveFire
    \/ StatusReset
    \/ Pass

\* saving: the core and the manual save
Next ==
    \/ Core
    \/ ManualSave

Spec == Init /\ [][Next]_vars

\* autosave timing in one page session: start-up, typing, the timers, and the
\* import, whose timer calls triggerAutosave
NextAutosave ==
    \/ StartupTimer
    \/ StartupRetry
    \/ UserType
    \/ AutosaveFire
    \/ StatusReset
    \/ Pass
    \/ ImportSelect
    \/ ImportRead
    \/ ImportConvert
    \/ ImportTrigger

SpecAutosave == Init /\ [][NextAutosave]_vars

\* save and restore
NextRestore ==
    \/ Core
    \/ ManualSave
    \/ ManualLoad

SpecRestore == Init /\ [][NextRestore]_vars

\* the undo history
NextHistory ==
    \/ Core
    \/ UndoChange
    \/ RedoChange
    \/ CreateNewDocument
    \/ ManualLoad

SpecHistory == Init /\ [][NextHistory]_vars

\* export in one page session
NextExport ==
    \/ StartupTimer
    \/ StartupRetry
    \/ UserType
    \/ AutosaveFire
    \/ StatusReset
    \/ Pass
    \/ ExportClick
    \/ ExportShortcut
    \/ ExportRasterize
    \/ ExportAssemble
    \/ ExportFinish

SpecExport == Init /\ [][NextExport]_vars

\* ... with time passing and every due callback running: the browser runs a
\* timer's callback once its delay is over, and the awaited html2canvas
\* promise settles
SpecExportLive ==
    /\ SpecExport
    /\ WF_vars(Pass)
    /\ WF_vars(StartupTimer)
    /\ WF_vars(StartupRetry)
    /\ WF_vars(AutosaveFire)
    /\ WF_vars(StatusReset)
    /\ WF_vars(ExportRasterize)
    /\ WF_vars(ExportAssemble)
    /\ WF_vars(ExportFinish)

\* the theme preference
NextTheme ==
    \/ PageLoad
    \/ StartupTimer
    \/ StartupRetry
    \/ ToggleDarkMode
    \/ Pass

SpecTheme == Init /\ [][NextTheme]_vars

\* programmatic replacement of the content in one page session: new document,
\* restore and the recovery of handleLoadError, import.  The user types
\* nothing here: the documents are the imported ones, the records the ones the
\* automatic save that follows an import has stored
NextReplace ==
    \/ StartupTimer
    \/ StartupRetry
    \/ AutosaveFire
    \/ StatusReset
    \/ Pass
    \/ CreateNewDocument
    \/ ManualLoad
    \/ ImportSelect
    \/ ImportRead
    \/ ImportConvert
    \/ ImportTrigger

SpecReplace == Init /\ [][NextReplace]_vars

\* the editor's and the storage module's operations together, with the engine
\* present or missing
NextEditor ==
    \/ Core
    \/ UndoChange
    \/ RedoChange
    \/ CreateNewDocument
    \/ ManualSave
    \/ ManualLoad

SpecEditor == Init /\ [][NextEditor]_vars

\* the operations that read the document without changing it, saving and
\* export, next to typing and the start-up restore
NextSnapshot ==
    \/ NextExport
    \/ ManualSave

SpecSnapshot == Init /\ [][NextSnapshot]_vars

\* the page at rest: no status reset pending, no import and no export in flight
Settled ==
    /\ statusTimers = {}
    /\ importTimers = {}
    /\ importBtn = "idle"
    /\ exportPc = "idle"

\* every source of a content change in one page session: typing and deleting,
\* undo and redo, new document, restore, import.  The user acts on a page at
\* rest
NextContent ==
    \/ StartupTimer
    \/ StartupRetry
    \/ AutosaveFire
    \/ StatusReset
    \/ Pass
    \/ ImportRead
    \/ ImportConvert
    \/ ImportTrigger
    \/ (Settled /\ UserType)
    \/ (Settled /\ UserBackspace)
    \/ (Settled /\ UndoChange)
    \/ (Settled /\ RedoChange)
    \/ (Settled /\ CreateNewDocument)
    \/ (Settled /\ ManualLoad)
    \/ (Settled /\ ImportSelect)

SpecContent == Init /\ [][NextContent]_vars

\* every operation that touches the stored record or that the record must
\* survive, in one page session.  The user acts on a page at rest (an autosave
\* or the start-up may still be pending); the documents are the imported ones
NextStore ==
    \/ StartupTimer
    \/ StartupRetry
    \/ AutosaveFire
    \/ StatusReset
    \/ Pass
    \/ ImportRead
    \/ ImportConvert
    \/ ImportTrigger
    \/ ExportRasterize
    \/ ExportAssemble
    \/ ExportFinish
    \/ (Settled /\ ManualSave)
    \/ (Settled /\ ManualLoad)
    \/ (Settled /\ ClearSavedDocument)
    \/ (Settled /\ CreateNewDocument)
    \/ (Settled /\ UndoChange)
    \/ (Settled /\ RedoChange)
    \/ (Settled /\ ToggleDarkMode)
    \/ (Settled /\ ImportSelect)
    \/ (Settled /\ ExportClick)

SpecStore == Init /\ [][NextStore]_vars

\* ------------------------------------------------------------- properties

\* the words of a text: the positions where a run of non-space characters starts
WordStarts(s) ==
    Cardinality({i \in 1..Len(s) : ~IsSpace(s[i]) /\ (i = 1 \/ IsSpace(s[i - 1]))})

\* C1: no performSave(true) runs earlier than 2000 ms after the most recent
\* user-sourced change, and no pending autosave timer would: whatever timer is
\* pending expires 2000 ms after that change or later, a change having
\* cancelled the timer it found and armed one for the full delay
C1_NoEarlyAutosave ==
    /\ change.earlySaves = 0
    /\ change.age >= 0 =>
           \A left \in autosaveTimers : left + change.age >= AUTOSAVE_DELAY

\* a change cancelled a timer that had run part of its delay, and the only
\* automatic save since ran 2000 ms after that change
C1_Witness == change.rearmed /\ change.savesAtEnd = 1 /\ change.earlySaves = 0

\* C2, as the code has it: a user-sourced change that reaches triggerAutosave
\* with autosave enabled, and after which triggerAutosave is not called again
\* (by a further change or by the import's timer), has exactly one timer
\* pending for the rest of its 2000 ms, which runs performSave(true) once, at
\* the end of the 2000 ms
C2_OneAutosaveAtEnd ==
    change.tracked =>
        /\ change.age < AUTOSAVE_DELAY =>
               /\ change.savesAtEnd = 0
               /\ autosaveTimers = {AUTOSAVE_DELAY - change.age}
        /\ change.age = AUTOSAVE_DELAY =>
               \/ change.savesAtEnd = 0 /\ autosaveTimers = {0}
               \/ change.savesAtEnd = 1 /\ autosaveTimers = {}
        /\ change.age > AUTOSAVE_DELAY => change.savesAtEnd = 1

\* the 2000 ms after a change that armed the timer are over and the one
\* automatic save has run
C2_Witness ==
    change.tracked /\ change.age > AUTOSAVE_DELAY /\ change.savesAtEnd = 1

\* C2 as stated: every user-sourced change followed by 2000 ms without a
\* further user-sourced change has had exactly one automatic save at the end
\* of the 2000 ms
C2_AsStated == change.age > AUTOSAVE_DELAY => change.savesAtEnd = 1

\* C3: performSave(true) on a document whose trimmed text is empty leaves the
\* stored item as it was and sets the status to 'disabled', the value no
\* other outcome of a save sets
C3_EmptyAutosaveSkipped ==
    [][(/\ lastOp'.op = "autosave"
        /\ 0 \in autosaveTimers
        /\ quill = "ready"
        /\ Len(Trim(GetText(content))) = 0)
       => (/\ lastOp'.outcome = "skipped"
           /\ savedItem' = savedItem
           /\ autoSaveStatus' = "disabled")]_vars

\* an automatic save was skipped with a record in the store
C3_Witness ==
    /\ lastOp = [op |-> "autosave", outcome |-> "skipped"]
    /\ savedItem.shape = "record"
    /\ autoSaveStatus = "disabled"

\* C4: a manual save with the engine initialized, whose write the store does
\* not reject, stores a record of the engine content, empty or not, and shows
\* the success alert
C4_ManualSaveWrites ==
    (lastOp.op = "manualSave" /\ quill = "ready" /\ lastOp.outcome # "rejected")
        => /\ lastOp.outcome = "saved"
           /\ savedItem.shape = "record"
           /\ savedItem.ops = content
           /\ dialogs = <<"alert:saved">>
           /\ autoSaveStatus = "saved"

\* a manual save of the empty document was written and confirmed
C4_Witness ==
    /\ lastOp = [op |-> "manualSave", outcome |-> "saved"]
    /\ content = <<>>
    /\ savedItem.shape = "record"
    /\ dialogs = <<"alert:saved">>

\* C5: a loadSavedDocument that runs with the engine initialized after a
\* successful save, with that save's record still the stored one, succeeds and
\* leaves the engine content equal to the engine content at that save
C5_RoundTrip ==
    (/\ lastOp.op \in {"startup", "manualLoad"}
     /\ lastOp.outcome \notin {"retry", "cancelled"}
     /\ saved.valid
     /\ quill = "ready")
        => lastOp.outcome = "loaded" /\ content = saved.ops

\* a manual load brought back a saved text after the user had edited the
\* document since the save
C5_Witness ==
    /\ lastOp = [op |-> "manualLoad", outcome |-> "loaded"]
    /\ saved.valid
    /\ saved.edited
    /\ change.cleared = "restore"
    /\ HasText(content)

C7_NewDocumentNotUndoable ==
    /\ [](lastOp = [op |-> "newDoc", outcome |-> "confirmed"]
              => content = <<>> /\ undoStack = <<>> /\ redoStack = <<>>)
    /\ [][(/\ lastOp = [op |-> "newDoc", outcome |-> "confirmed"]
           /\ lastOp'.op \in {"undo", "redo"})
          => (lastOp'.outcome = "nothing" /\ content' = content)]_vars

\* an undo found nothing to undo after a new document discarded the history
C7_Witness ==
    /\ lastOp = [op |-> "undo", outcome |-> "nothing"]
    /\ change.cleared = "newDoc"
    /\ content = <<>>

\* C8: after a restore that succeeded, at start-up or by manual load, the
\* document is the record's content and both history stacks are empty, and an
\* undo or redo that follows changes nothing
C8_RestoreNotUndoable ==
    /\ [](lastOp.outcome = "loaded"
              => content = savedItem.ops /\ undoStack = <<>> /\ redoStack = <<>>)
    /\ [][(lastOp.outcome = "loaded" /\ lastOp'.op \in {"undo", "redo"})
          => (lastOp'.outcome = "nothing" /\ content' = content)]_vars

\* an undo found nothing to undo after a restore discarded the history
C8_Witness ==
    /\ lastOp = [op |-> "undo", outcome |-> "nothing"]
    /\ change.cleared = "restore"
    /\ content = savedItem.ops
    /\ HasText(content)

\* C9: a click on the export control with the engine missing or the trimmed
\* text empty shows an alert and changes nothing else: no download, no
\* overlay, no staging container, the control enabled with its label
C9_ExportAborts ==
    [][(/\ lastOp'.op = "export"
        /\ lastOp'.outcome \in {"aborted", "started"}
        /\ ~exportBtn.disabled
        /\ (quill = "null" \/ ~HasText(content)))
       => (/\ lastOp'.outcome = "aborted"
           /\ dialogs' \in {<<"alert:no-editor">>, <<"alert:empty">>}
           /\ overlays' = 0
           /\ wrappers' = 0
           /\ ~exportBtn'.disabled
           /\ UNCHANGED <<exportVars, editorVars, themeVars, importVars, savedItem,
                          autoSaveStatus>>)]_vars

\* an export of a document of white space only was refused
C9_Witness ==
    /\ lastOp = [op |-> "export", outcome |-> "aborted"]
    /\ dialogs = <<"alert:empty">>
    /\ Len(content) > 0
    /\ overlays = 0
    /\ wrappers = 0

\* C10 as stated: after toggleDarkMode the stored theme is "dark" or "light"
\* and is the theme the page shows
C10_AsStated ==
    lastOp.op = "toggleTheme"
        => /\ themeItem \in {"dark", "light"}
           /\ darkMode <=> themeItem = "dark"

\* the boxes a handler showed
Shown(boxes) == {boxes[i] : i \in 1..Len(boxes)}

\* the last handler ran loadSavedDocument: the start-up once the engine is
\* there or the retry is over, or a manual load the user went ahead with
RestoreRan(op) ==
    /\ op.op \in {"startup", "manualLoad"}
    /\ op.outcome \notin {"retry", "cancelled"}

\* C11: a restore that finds a stored value failing the shape validation (no
\* content, or content without ops) shows the clear-and-start-fresh confirm
\* box; once the user has confirmed, the store has no item under the key and
\* the engine content is empty
C11_InvalidShapeRecovery ==
    [][(RestoreRan(lastOp') /\ savedItem.shape \in {"nocontent", "noops"})
       => (/\ "confirm:corrupted" \in Shown(dialogs')
           /\ lastOp'.outcome \in {"declined", "cleared", "threw"}
           /\ lastOp'.outcome \in {"cleared", "threw"}
                  => savedItem' = NoItem /\ content' = <<>>)]_vars

\* a manual load found the invalid record after the user had typed, and the
\* user confirmed the recovery: the text and the record are gone
C11_Witness ==
    /\ lastOp = [op |-> "manualLoad", outcome |-> "cleared"]
    /\ "confirm:corrupted" \in Shown(dialogs)
    /\ savedItem = NoItem
    /\ content = <<>>
    /\ undoStack # <<>>
    /\ undoStack[Len(undoStack)].redo.ins # <<>>

\* C12: while the export control is disabled an export is in flight and
\* neither a click nor Ctrl+P starts another one; the page never holds more
\* than one overlay or more than one staging container, and the export of one
\* accepted click never hands more than one file to the browser
C12_ExportMutualExclusion ==
    /\ [](/\ overlays <= 1
          /\ wrappers <= 1
          /\ downloads <= 1
          /\ exportBtn.disabled <=> exportPc # "idle"
          /\ exportPc # "idle" => overlays = 1 /\ wrappers = 1)
    /\ [][exportBtn.disabled
            => (/\ overlays' <= overlays
                /\ wrappers' <= wrappers
                /\ downloads' >= downloads
                /\ exportPc' # "settling" \/ exportPc = "settling"
                /\ lastOp'.op = "exportShortcut"
                       => UNCHANGED <<exportPc, exportBtn, overlays, wrappers,
                                      wrapperHtml, downloads>>)]_vars

\* Ctrl+P was pressed while an export that has already saved its file was
\* waiting to clean up: nothing started
C12_Witness ==
    /\ lastOp = [op |-> "exportShortcut", outcome |-> "ignored"]
    /\ exportPc = "cleanup"
    /\ exportBtn.disabled
    /\ downloads = 1
    /\ overlays = 1
    /\ wrappers = 1

\* C13: an export that fails after the control was disabled, while staging,
\* rasterizing, or assembling and saving the PDF, ends in the same step with
\* the failure alert shown, no exception left uncaught, no overlay and no
\* staging container in the page, and the control enabled with its label
C13_ExportFailureCleansUp ==
    /\ [](lastOp = [op |-> "export", outcome |-> "failed"]
            => (/\ dialogs = <<"alert:export-failed">>
                /\ ~uncaught
                /\ overlays = 0
                /\ wrappers = 0
                /\ exportPc = "idle"
                /\ exportBtn = IdleExportBtn))
    /\ [][(exportPc \in {"settling", "rasterizing"} /\ exportPc' = "idle")
            => lastOp' = [op |-> "export", outcome |-> "failed"]]_vars

\* the rasterization or the PDF assembly of a typed document failed, and
\* the page is as before the click
C13_Witness ==
    /\ lastOp = [op |-> "export", outcome |-> "failed"]
    /\ wrapperHtml # <<>>
    /\ wrapperHtml = content
    /\ overlays = 0
    /\ wrappers = 0
    /\ ~exportBtn.disabled

\* a step that arms the autosave timer: a timer with the whole delay to run
\* is pending after the step and was not before
Arms == AUTOSAVE_DELAY \in autosaveTimers' /\ AUTOSAVE_DELAY \notin autosaveTimers

UserSourced == {"type", "backspace", "undo", "redo"}

\* C14 as stated: only a user-sourced change arms the autosave timer; no
\* step that follows from createNewDocument, a restore, the corrupted-record
\* reset or an import does
C14_AsStated == [][Arms => lastOp'.op \in UserSourced]_vars

\* C14: the autosave timer is armed only by a user-sourced change or by the
\* callback the import sets 500 ms after it has replaced the content;
\* createNewDocument, a restore and the corrupted-record reset never arm it,
\* whatever timer is pending when they run
C14_ArmedByUserOrImport ==
    [][Arms => lastOp'.op \in UserSourced \cup {"importTrigger"}]_vars

\* the import's callback armed the autosave timer in a page session without
\* any user-sourced change
C14_Witness ==
    /\ lastOp.op = "importTrigger"
    /\ autosaveTimer = AUTOSAVE_DELAY
    /\ AUTOSAVE_DELAY \in autosaveTimers
    /\ change.age = -1

\* a step that runs the callback of a status-reset timer
ResetFires == 0 \in statusTimers /\ lastOp'.op = "statusReset"

\* C15 as stated: a reset callback that turns saved into ready is the one
\* set, 3000 ms before, by the save that showed saved; no reset timer set
\* later than the expiring one is still pending, so the status of a save is
\* not taken back sooner than 3000 ms after it
C15_AsStated ==
    [][(ResetFires /\ autoSaveStatus = "saved") => statusTimers = {0}]_vars

\* C16 as stated: while an autosave timer is pending the status is pending,
\* and the status leaves pending only in the step in which that timer fires,
\* for saved, skipped ('disabled') or error
C16_AsStated ==
    /\ [](autosaveTimers # {} => autoSaveStatus = "pending")
    /\ [][(autoSaveStatus = "pending" /\ autoSaveStatus' # "pending")
            => (/\ lastOp'.op = "autosave"
                /\ autoSaveStatus' \in {"saved", "disabled", "error"})]_vars

\* C16: the step that arms the autosave timer sets the status to pending; the
\* status then leaves pending when the timer fires (saved, skipped or error),
\* but also, with the timer still pending, on a manual save (saved or error),
\* on a manual load (loaded, ready or error), on the expiry of a status-reset
\* timeout (ready), and on a page reload
C16_PendingWhenArmed ==
    /\ [][Arms => autoSaveStatus' = "pending"]_vars
    /\ [][(autoSaveStatus = "pending" /\ autoSaveStatus' # "pending")
            => (\/ /\ lastOp'.op = "autosave"
                   /\ autoSaveStatus' \in {"saved", "disabled", "error"}
                   /\ 0 \in autosaveTimers
                \/ /\ lastOp'.op = "manualSave"
                   /\ autoSaveStatus' \in {"saved", "error"}
                \/ /\ lastOp'.op = "manualLoad"
                   /\ autoSaveStatus' \in {"loaded", "ready", "error"}
                \/ /\ lastOp'.op = "statusReset"
                   /\ autoSaveStatus' = "ready"
                \/ /\ lastOp'.op = "load"
                   /\ autosaveTimers' = {})]_vars

\* a manual save has replaced pending by saved while the autosave timer armed
\* by the last keystroke is still running
C16_Witness ==
    /\ lastOp = [op |-> "manualSave", outcome |-> "saved"]
    /\ autoSaveStatus = "saved"
    /\ autosaveTimers # {}
    /\ autosaveTimer \in autosaveTimers
    /\ change.tracked

\* C17 as stated: the callback of a status-reset timeout replaces by ready
\* only the status saved or loaded, never error, skipped ('disabled') or
\* pending
C17_AsStated ==
    [][(ResetFires /\ autoSaveStatus' = "ready" /\ autoSaveStatus # "ready")
           => autoSaveStatus \in {"saved", "loaded"}]_vars

\* the last handler was a save whose localStorage.setItem threw
WriteRejected(op) == op.op \in {"manualSave", "autosave"} /\ op.outcome = "rejected"

C19_AsStated == lastOp.op # "load" => ~uncaught

\* C20 as stated: a restore that finds a stored value of any malformed shape
\* (unparseable, JSON null, no content, content without ops) leaves the
\* engine content alone and shows the clear-and-start-fresh confirm box; if
\* the user declines, the stored item and the engine content are unchanged
C20_AsStated ==
    [][(RestoreRan(lastOp') /\ savedItem.shape \in MalformedShapes)
       => (/\ "confirm:corrupted" \in Shown(dialogs')
           /\ lastOp'.outcome \in {"declined", "cleared", "threw"}
           /\ lastOp'.outcome = "declined"
                  => savedItem' = savedItem /\ content' = content)]_vars

\* C21: a manualLoad whose confirmation the user declines leaves the engine
\* content, both history stacks, the stored item and the save status as they
\* were, and shows nothing but the confirm box
C21_DeclinedLoadChangesNothing ==
    [][lastOp' = [op |-> "manualLoad", outcome |-> "cancelled"]
          => (/\ UNCHANGED <<content, undoStack, redoStack, wordCount, savedItem,
                             autoSaveStatus>>
              /\ dialogs' = <<"confirm:load">>
              /\ ~uncaught')]_vars

\* the user declined to load a stored record that differs from the text
\* typed since, while the status showed the pending automatic save
C21_Witness ==
    /\ lastOp = [op |-> "manualLoad", outcome |-> "cancelled"]
    /\ savedItem.shape = "record"
    /\ savedItem.ops # content
    /\ undoStack # <<>>
    /\ autoSaveStatus = "pending"

\* C22 as stated: manualLoad shows its "Loaded document from" report only
\* after a restore that succeeded, with the engine content now the stored
\* record's content
C22_AsStated ==
    "alert:loaded-from" \in Shown(dialogs)
        => /\ lastOp = [op |-> "manualLoad", outcome |-> "loaded"]
           /\ savedItem.shape = "record"
           /\ content = savedItem.ops

\* a step in which a handler or a timer callback runs, not one of time passing
HandlerStep == ~Pass

\* C23: a restore that finds no item under the key, at start-up or in a
\* confirmed manual load, leaves the engine content, both history stacks and
\* the store as they were, sets the status to ready, shows no alert and
\* throws nothing
C23_AbsentRecordNoOp ==
    [][(HandlerStep /\ RestoreRan(lastOp') /\ savedItem = NoItem)
          => (/\ lastOp'.outcome = "none"
              /\ UNCHANGED <<content, undoStack, redoStack, savedItem>>
              /\ autoSaveStatus' = "ready"
              /\ dialogs' \in {<<>>, <<"confirm:load">>}
              /\ ~uncaught')]_vars

\* a confirmed manual load found no record while typed text was waiting for
\* its automatic save: the text and its history are kept, the status is ready
C23_Witness ==
    /\ lastOp = [op |-> "manualLoad", outcome |-> "none"]
    /\ savedItem = NoItem
    /\ content # <<>>
    /\ undoStack # <<>>
    /\ autosaveTimers # {}
    /\ autoSaveStatus = "ready"

\* C24: a createNewDocument whose confirmation the user declines leaves the
\* engine content, both history stacks, the word count display and the store
\* as they were
C24_DeclinedNewDocumentChangesNothing ==
    [][lastOp' = [op |-> "newDoc", outcome |-> "declined"]
          => (/\ UNCHANGED <<content, undoStack, redoStack, wordCount, savedItem,
                             themeItem>>
              /\ dialogs' = <<"confirm:new">>
              /\ ~uncaught')]_vars

\* the user declined to discard a typed document that has a stored record
C24_Witness ==
    /\ lastOp = [op |-> "newDoc", outcome |-> "declined"]
    /\ content # <<>>
    /\ undoStack # <<>>
    /\ wordCount = DisplayOf(content)
    /\ savedItem.shape = "record"

\* the boxes that report a failure
ErrorBoxes == {"alert:save-failed", "alert:quota", "alert:load-failed"}

C26_AsStated ==
    [][lastOp'.op \in {"type", "backspace"} => wordCount' = wordCount]_vars

\* C27: the stored record is removed only by a step in which the user has
\* confirmed a deletion: the recovery from a corrupted record (at start-up or
\* in a manual load) or clearSavedDocument.  No other step (save, restore of
\* a valid record, new document, import, export, undo, redo, theme toggle,
\* a timer) takes a present item away
C27_RemovedOnlyOnConfirmation ==
    [][(savedItem # NoItem /\ savedItem' = NoItem)
       => \/ /\ lastOp'.op \in {"startup", "manualLoad"}
             /\ lastOp'.outcome \in {"cleared", "threw"}
             /\ savedItem.shape \in MalformedShapes
             /\ "confirm:corrupted" \in Shown(dialogs')
          \/ /\ lastOp' = [op |-> "clearSaved", outcome |-> "cleared"]
             /\ "confirm:delete-saved" \in Shown(dialogs')]_vars

\* a well-formed record was just deleted by a confirmed clearSavedDocument
C27_Witness ==
    /\ lastOp = [op |-> "clearSaved", outcome |-> "cleared"]
    /\ savedItem = NoItem
    /\ content # <<>>
    /\ autoSaveStatus = "ready"

\* C28 as stated: whenever a well-formed record is stored and no autosave
\* timer is armed, the record's wordCount equals the word count of the
\* engine's current content
C28_AsStated ==
    (savedItem.shape = "record" /\ autosaveTimers = {})
        => savedItem.wordCount = DisplayOf(content).words

\* C28 amended: the record's wordCount is the word count of the content at the
\* save that wrote it.  Every stored record carries the count of its own
\* content, and in the step of a successful save (manual or automatic) the
\* record holds the engine's content and the count the footer shows for it
C28_CountAtSaveTime ==
    /\ [](savedItem.shape = "record"
            => savedItem.wordCount = DisplayOf(savedItem.ops).words)
    /\ [][(/\ lastOp'.op \in {"manualSave", "autosave"}
           /\ lastOp'.outcome = "saved"
           /\ HandlerStep)
          => (/\ savedItem'.shape = "record"
              /\ savedItem'.ops = content
              /\ content' = content
              /\ savedItem'.wordCount = DisplayOf(content').words
              /\ wordCount'.words = savedItem'.wordCount)]_vars

\* an automatic save has just stored a document of two words
C28_Witness ==
    /\ lastOp = [op |-> "autosave", outcome |-> "saved"]
    /\ savedItem.shape = "record"
    /\ savedItem.ops = content
    /\ Len(content) = MaxLen
    /\ autosaveTimers = {}

\* C29: saving and exporting only read the document.  A step of performSave
\* (manual or automatic; saved, skipped or failed) and every step of the
\* export (started, aborted, ignored, failed, finished) leaves the engine's
\* content and its undo and redo stacks as they were; the content changes
\* only by the user's typing and by the restore
C29_SaveAndExportOnlyRead ==
    /\ [][lastOp'.op \in {"manualSave", "autosave", "export", "exportShortcut"}
          => UNCHANGED <<content, undoStack, redoStack>>]_vars
    /\ [][content' # content => lastOp'.op \in {"type", "startup"}]_vars

\* an export has finished on a typed document that was saved before, the
\* history still holding the typing
C29_Witness ==
    /\ lastOp = [op |-> "export", outcome |-> "finished"]
    /\ savedItem.shape = "record"
    /\ savedItem.ops = content
    /\ undoStack # <<>>
    /\ Len(content) = MaxLen

\* the image of the assembled PDF does not fit on its page below its origin
TallerThanPage ==
    /\ pdf # NoPdf
    /\ \E i \in 1..Len(pdf.images) : pdf.images[i].y + pdf.images[i].h > A4_HEIGHT

\* C30 as stated: the exported PDF is paginated: when the rasterized content,
\* scaled to the page width inside the margins, is taller than one page, the
\* document produced has more than one page
C30_AsStated == TallerThanPage => pdf.pages > 1

\* C31 as stated: the storage module's start-up (attaching the listener and
\* running the restore) runs once per page load, after the editor's
\* initialization, and never on an engine reference that is still
\* uninitialized: a start-up whose restore reaches a call on the engine
\* (setContents for a stored record, setText in a confirmed recovery) finds
\* the engine ready
C31_AsStated ==
    [][(/\ startup.phase # "done"
        /\ startup'.phase = "done"
        /\ \/ savedItem.shape = "record"
           \/ lastOp'.outcome \in {"cleared", "threw"})
       => quill = "ready"]_vars

\* C32: every export that has passed the preconditions terminates, the
\* awaited delays and calls resolving or rejecting; when it has terminated,
\* on the success path and on the failure path, no overlay and no staging
\* container is in the page and the control is enabled under its idle label
C32_ExportTerminatesClean ==
    /\ (exportPc # "idle") ~> (exportPc = "idle")
    /\ [](exportPc = "idle"
            => overlays = 0 /\ wrappers = 0 /\ exportBtn = IdleExportBtn)

\* an export has gone through to its success alert and left the page clean
C32_Witness ==
    /\ lastOp = [op |-> "export", outcome |-> "finished"]
    /\ "alert:exported" \in Shown(dialogs)
    /\ exportPc = "idle"
    /\ downloads = 1
    /\ overlays = 0
    /\ wrappers = 0
    /\ exportBtn = IdleExportBtn

\* C33: a confirmed createNewDocument empties the engine, leaves the stored
\* record as it is and arms no save; a page load leaves the record as it is;
\* and the start-up restore of a page whose engine is ready puts the stored
\* record's content into the engine.  So a reload after a new document brings
\* the stored document back
C33_NewDocumentKeepsRecord ==
    /\ [][(HandlerStep /\ lastOp' = [op |-> "newDoc", outcome |-> "confirmed"])
          => (/\ content' = <<>>
              /\ savedItem' = savedItem
              /\ autosaveTimers' = autosaveTimers
              /\ autosaveTimer' = autosaveTimer)]_vars
    /\ [][(HandlerStep /\ lastOp'.op = "load")
          => (savedItem' = savedItem /\ autosaveTimers' = {})]_vars
    /\ [][(/\ startup.phase # "done"
           /\ startup'.phase = "done"
           /\ quill = "ready"
           /\ savedItem.shape = "record")
          => (content' = savedItem.ops /\ savedItem' = savedItem)]_vars

\* a new document was just created over a stored document of two characters,
\* no save being armed
C33_Witness ==
    /\ lastOp = [op |-> "newDoc", outcome |-> "confirmed"]
    /\ content = <<>>
    /\ savedItem.shape = "record"
    /\ Len(savedItem.ops) = MaxLen
    /\ autosaveTimers = {}

\* C34: a manual save does not cancel the armed autosave timer.  The step of
\* a manual save leaves the timer and its handle as they were; an armed
\* timer's deadline stays 2000 ms after the last user change; and when the
\* timer fires, performSave(true) runs on the content of that moment
C34_ManualSaveKeepsTimer ==
    /\ [](\A t \in autosaveTimers :
            change.tracked /\ t = AUTOSAVE_DELAY - change.age)
    /\ [][(HandlerStep /\ lastOp'.op = "manualSave")
          => (autosaveTimers' = autosaveTimers /\ autosaveTimer' = autosaveTimer)]_vars
    /\ [][(HandlerStep /\ lastOp'.op = "autosave")
          => (/\ 0 \in autosaveTimers
              /\ change.age = AUTOSAVE_DELAY
              /\ lastOp'.outcome = "saved" => savedItem'.ops = content)]_vars

\* a manual save has just stored the document while the timer armed by the
\* last change is half-way to its deadline
C34_Witness ==
    /\ lastOp = [op |-> "manualSave", outcome |-> "saved"]
    /\ autosaveTimers = {AUTOSAVE_DELAY - Quantum}
    /\ change.age = Quantum
    /\ savedItem.ops = content
    /\ content # <<>>

C36_ExportRendersSnapshot ==
    /\ [][(exportPc = "idle" /\ exportPc' # "idle") => wrapperHtml' = content]_vars
    /\ [][(exportPc # "idle" /\ exportPc' # "idle") => wrapperHtml' = wrapperHtml]_vars
    /\ [](pdf # NoPdf
            => \A i \in 1..Len(pdf.images) : pdf.images[i].shows = wrapperHtml)

\* a file has been assembled from the one-character document of the click
\* while the engine already holds a second character typed during the export
C36_Witness ==
    /\ lastOp = [op |-> "export", outcome |-> "saved"]
    /\ pdf # NoPdf
    /\ Len(pdf.images[1].shows) = 1
    /\ Len(content) = MaxLen
    /\ pdf.images[1].shows = SubSeq(content, 1, 1)

\* C37: when the storage probe of the page load has failed, autosave is off
\* for the whole page session: the flag changes only with a page load, no
\* timer is ever armed and no automatic save ever runs, while a manual save
\* still attempts the write, storing the document when the write goes
\* through and reporting the failure when it does not
C37_ProbeFailureDisablesAutosave ==
    /\ [](~isAutosaveEnabled
            => /\ autosaveTimers = {}
               /\ autosaveTimer = NoTimer
               /\ lastOp.op # "autosave")
    /\ [][lastOp'.op # "load" => isAutosaveEnabled' = isAutosaveEnabled]_vars
    /\ [][(/\ HandlerStep
           /\ ~isAutosaveEnabled
           /\ quill = "ready"
           /\ lastOp'.op = "manualSave")
          => \/ /\ lastOp'.outcome = "saved"
                /\ savedItem'.shape = "record"
                /\ savedItem'.ops = content
             \/ /\ lastOp'.outcome = "rejected"
                /\ Shown(dialogs') \cap {"alert:save-failed", "alert:quota"} # {}
                /\ autoSaveStatus' = "error"
                /\ savedItem' = savedItem]_vars

\* in a session whose probe failed the user has typed, two seconds have gone
\* by without a save, and a manual save has just reported its failed write
C37_Witness ==
    /\ ~isAutosaveEnabled
    /\ quill = "ready"
    /\ content # <<>>
    /\ change.age >= AUTOSAVE_DELAY
    /\ lastOp = [op |-> "manualSave", outcome |-> "rejected"]
    /\ Shown(dialogs) \cap {"alert:save-failed", "alert:quota"} # {}
    /\ savedItem = NoItem

\* C38 as stated: content the user has produced is never replaced by a stored
\* record without a confirmation by the user; in particular the start-up
\* restore does not overwrite what the user has typed since the engine was
\* initialized: a restore that replaces a non-empty content by a record's
\* different one has shown the load confirmation
C38_AsStated ==
    [][(/\ HandlerStep
        /\ RestoreRan(lastOp')
        /\ lastOp'.outcome = "loaded"
        /\ content # <<>>
        /\ content' # content)
       => "confirm:load" \in Shown(dialogs')]_vars

\* C39: an import attempt that is rejected (wrong extension, too large,
\* replacement declined) or whose read or conversion fails leaves the
\* engine's content and history unchanged; and every attempt that reached the
\* loading state ends, imported or failed, with the control idle again and
\* the file input reset, as they are whenever no import is in flight
C39_ImportFailureChangesNothing ==
    /\ [][(/\ HandlerStep
           /\ lastOp'.op = "import"
           /\ lastOp'.outcome \in {"nofile", "rejected", "declined", "failed"})
          => UNCHANGED <<content, undoStack, redoStack>>]_vars
    /\ [][(/\ importBtn # "idle"
           /\ lastOp'.op = "import"
           /\ lastOp'.outcome \in {"failed", "imported"})
          => (importBtn' = "idle" /\ fileInput' = "empty")]_vars
    /\ [](importBtn = "idle" <=> fileInput = "empty")

\* an import over a typed document has just failed: the document and its
\* history are still there, the control is idle, the input reset
C39_Witness ==
    /\ lastOp = [op |-> "import", outcome |-> "failed"]
    /\ "alert:import-failed" \in Shown(dialogs)
    /\ Len(content) = MaxLen
    /\ undoStack # <<>>
    /\ importBtn = "idle"
    /\ fileInput = "empty"

\* C40: at most one autosave timer is pending at any time, and it is the one
\* the handle names: every triggerAutosave clears the timer armed before, so
\* a burst of changes leaves one pending automatic save
C40_OneAutosaveTimer ==
    /\ Cardinality(autosaveTimers) <= 1
    /\ autosaveTimers # {} => autosaveTimers = {autosaveTimer}

\* the second change of a burst has just re-armed the timer that the first
\* one had armed a second before: one timer is pending, with the full delay
C40_Witness ==
    /\ lastOp = [op |-> "type", outcome |-> "changed"]
    /\ Len(content) = MaxLen
    /\ change.rearmed
    /\ autosaveTimers = {AUTOSAVE_DELAY}
    /\ autosaveTimer = AUTOSAVE_DELAY

====
